---- MODULE Spec2Model ----
(***************************************************************************)
(* Market-data ingestion core of OpenNof1: the bounded kline cache         *)
(* (backend/market/data_cache.py), the historical bootstrap                *)
(* (backend/market/api_client.py), the streaming client and its            *)
(* reconnection logic (backend/market/websocket_client.py) and the         *)
(* application entry point that drives them (backend/main.py).             *)
(***************************************************************************)
EXTENDS Integers, Sequences, FiniteSets, Bags, TLC

(***************************************************************************)
(* Bounds of the model.                                                    *)
(***************************************************************************)
\* Capacity of every deque (self.max_klines, 100 in the source), scaled down.
max_klines == 3
\* Number of add_kline calls the call log keeps before it stops recording.
MaxLog == 2
\* Largest value a test may give max_reconnect_attempts (10 in the source).
MaxAttempts == 3
\* Number of times the network may drop an open transport.
MaxLosses == 2
\* Number of message handlers the application registers.
MaxHandlers == 2
\* Number of get_klines calls the analysis tool makes from its own thread.
MaxReads == 2
\* The largest snapshot the analysis tool is given.
MaxCandles == 50
\* The largest number of timeframes a consensus is computed over.
MaxFrames == 3
\* The largest snapshot whose OBV trend is computed from its candles.
MaxSnapshot == 6

\* config.agent.symbols and config.agent.timeframes, in configured order.
symbols == <<"BTCUSDT", "ETHUSDT">>
timeframes == <<"1h", "4h">>

Symbols == {symbols[i] : i \in 1..Len(symbols)}
Timeframes == {timeframes[i] : i \in 1..Len(timeframes)}

\* open_time values of the klines offered to the cache: enough to fill a
\* deque and to push one entry out of it.
OpenTimes == 1..(max_klines + 1)
\* close_price stands for the numeric fields of a kline.
Prices == {1, 2}

\* market.types.Kline, reduced to the fields the cache and the claims read;
\* the klines offered to the cache are those of the first configured series.
Klines ==
    [symbol : {symbols[1]}, interval : {timeframes[1]}, open_time : OpenTimes,
     close_price : Prices, is_final : BOOLEAN]

\* The kline of a record of no call.
NoKline ==
    [symbol |-> "", interval |-> "", open_time |-> 0, close_price |-> 0,
     is_final |-> FALSE]

VARIABLES
    cache,      \* KlineCache.cache: symbol -> timeframe -> deque of Kline
    calls,      \* the arguments of the add_kline calls made so far (history)
    calls_full, \* TRUE once more than MaxLog calls were made (log dropped)
    last_call,  \* the cache operation of the last step that called one, and
                \* the kline of its last add_kline (history)
    ws,         \* the fields of the BinanceWebSocketClient instance
    transport,  \* the transports websockets.connect has opened, by number
    loops,      \* the start_message_loop tasks created so far
    main_task,  \* main(): where it is and the connection it is closing
    shutdown_task, \* the shutdown() task the signal handler creates
    exit_code,  \* -1 while the process runs, then its exit status
    losses,     \* how many transports the network has dropped (history)
    trail,      \* the connection states the last step went through (history)
    failed_reconnects, \* consecutive failed reconnection connects (history)
    attempts,   \* the calls of _handle_reconnect that passed its guard since
                \* the last connect() that succeeded (history)
    reconnected, \* TRUE once the connect() of a reconnection succeeded (history)
    disc_hit,   \* for main and shutdown, the loops that were receiving or
                \* handling a frame when it invoked disconnect(); pending:
                \* the loops that were in the delay or the connect() of a
                \* reconnection when a caller's disconnect() returned
                \* (history)
    sent,       \* the subscription requests of the last subscribe_all (history)
    delivered,  \* the message handler calls made so far for the kline frame
                \* that is being handled (history)
    connect_ret, \* what the last connect() returned (history)
    late,       \* the steps tasks ran after main() returned, as a bag: the
                \* message loop tasks by number, the shutdown task as 0
    runner,     \* asyncio.run(main()): its phase, and the exit status it
                \* is going to end with
    lock,       \* KlineCache.lock, an asyncio.Lock
    threads,    \* the cache operation of each thread that uses the cache
    returned,   \* what the last read of the cache returned to its caller
    analysis,   \* multi_timeframe_analysis of tech_analysis_tool, in the
                \* order the timeframes were analysed
    overall,    \* overall_signals of the tool's result
    tool_klines \* klines of tech_analysis_tool: the snapshot of the timeframe
                \* it analyses, as the close and the volume of each candle

cacheVars == <<cache, calls, calls_full, last_call>>

clientVars ==
    <<ws, transport, loops, main_task, shutdown_task, exit_code, losses, trail,
      failed_reconnects, attempts, reconnected, disc_hit, sent, delivered,
      connect_ret, late, runner>>

threadVars == <<lock, threads>>

readerVars == <<returned, analysis, overall, tool_klines>>

vars == <<cache, calls, calls_full, last_call, ws, transport, loops, main_task,
          shutdown_task, exit_code, losses, trail, failed_reconnects, attempts,
          reconnected, disc_hit, sent, delivered, connect_ret, late, runner, lock,
          threads,
          returned, analysis, overall, tool_klines>>

(***************************************************************************)
(* KlineCache                                                              *)
(***************************************************************************)
\* deque(maxlen=self.max_klines) for every configured symbol and timeframe
_initialize_cache == [s \in Symbols |-> [tf \in Timeframes |-> <<>>]]

\* A deque.append that does not discard the oldest entry of a full deque.
DequeAppendNoEvict(dq, k) == Append(dq, k)

\* deque.append on a deque with maxlen = max_klines: a full deque drops its
\* leftmost entry.
DequeAppend(dq, k) ==
    IF Len(dq) >= max_klines THEN Append(Tail(dq), k) ELSE Append(dq, k)

\* The update branch taken whatever the last entry is.
UpsertAlwaysReplace(dq, k) ==
    IF Len(dq) > 0 THEN [dq EXCEPT ![Len(dq)] = k] ELSE DequeAppend(dq, k)

\* The update branch that keeps the stored entry instead of the new one.
UpsertKeepOld(dq, k) ==
    IF Len(dq) > 0 /\ dq[Len(dq)].open_time = k.open_time
    THEN dq
    ELSE DequeAppend(dq, k)

\* Lines 48-54 of add_kline: replace the last entry when its open_time is
\* that of the new kline, append otherwise.
Upsert(dq, k) ==
    IF Len(dq) > 0 /\ dq[Len(dq)].open_time = k.open_time
    THEN [dq EXCEPT ![Len(dq)] = k]
    ELSE DequeAppend(dq, k)

\* An add_kline that writes the kline into the series of its interval of
\* every symbol.
add_kline_every_symbol(c, k) ==
    LET c1 == IF k.symbol \in DOMAIN c
              THEN c
              ELSE c @@ (k.symbol :> [tf \in Timeframes |-> <<>>])
        c2 == IF k.interval \in DOMAIN c1[k.symbol]
              THEN c1
              ELSE [c1 EXCEPT ![k.symbol] = @ @@ (k.interval :> <<>>)]
    IN  [s \in DOMAIN c2 |->
            [tf \in DOMAIN c2[s] |->
                IF tf = k.interval THEN Upsert(c2[s][tf], k) ELSE c2[s][tf]]]

\* KlineCache.add_kline: the cache after add_kline(k) on cache c.
add_kline(c, k) ==
    LET c1 == IF k.symbol \in DOMAIN c
              THEN c
              ELSE c @@ (k.symbol :> [tf \in Timeframes |-> <<>>])
        c2 == IF k.interval \in DOMAIN c1[k.symbol]
              THEN c1
              ELSE [c1 EXCEPT ![k.symbol] = @ @@ (k.interval :> <<>>)]
    IN  [c2 EXCEPT ![k.symbol][k.interval] = Upsert(@, k)]

\* A slice that takes the first n entries (klines[:limit]).
FirstN(s, n) == IF n >= Len(s) THEN s ELSE SubSeq(s, 1, n)

\* The last n entries of a sequence (klines[-limit:]).
LastN(s, n) == IF n >= Len(s) THEN s ELSE SubSeq(s, Len(s) - n + 1, Len(s))

\* limit=None, the default of get_klines.
NoLimit == -1

\* A get_klines that answers a missing series with a list of one
\* placeholder entry.
get_klines_placeholder(c, symbol, timeframe, limit) ==
    IF symbol \notin DOMAIN c \/ timeframe \notin DOMAIN c[symbol]
    THEN <<NoKline>>
    ELSE IF limit > 0 THEN LastN(c[symbol][timeframe], limit)
         ELSE c[symbol][timeframe]

\* KlineCache.get_klines, the entries of the list it returns; "limit and
\* limit > 0" is false for None and for 0.
get_klines(c, symbol, timeframe, limit) ==
    IF symbol \notin DOMAIN c \/ timeframe \notin DOMAIN c[symbol]
    THEN <<>>
    ELSE IF limit # NoLimit /\ limit > 0 THEN LastN(c[symbol][timeframe], limit)
         ELSE c[symbol][timeframe]

\* list(self.cache[symbol][timeframe]) (line 62): a new list that holds the
\* Kline objects the deque holds, given as the place in the deque of the
\* object of each entry.
list_copy(dq) == [i \in 1..Len(dq) |-> i]

\* The Kline objects of the list get_klines returns (lines 59-67): for each
\* entry the place of its object in the deque of the series.
get_klines_objects(c, symbol, timeframe, limit) ==
    IF symbol \notin DOMAIN c \/ timeframe \notin DOMAIN c[symbol]
    THEN <<>>
    ELSE IF limit # NoLimit /\ limit > 0
         THEN LastN(list_copy(c[symbol][timeframe]), limit)
         ELSE list_copy(c[symbol][timeframe])

\* Where add_kline(k) leaves the Kline object that is at place p of the
\* deque dq (lines 49-54), 0 when the deque no longer holds it: the update
\* branch puts k in the place of the last object, and the append to a full
\* deque drops the leftmost object.
place_after_add(p, dq, k) ==
    IF p = 0 THEN 0
    ELSE IF Len(dq) > 0 /\ dq[Len(dq)].open_time = k.open_time
         THEN IF p = Len(dq) THEN 0 ELSE p
         ELSE IF Len(dq) >= max_klines THEN p - 1 ELSE p

\* A get_latest_kline that returns the oldest entry.
get_oldest_kline(c, symbol, timeframe) ==
    IF symbol \notin DOMAIN c \/ timeframe \notin DOMAIN c[symbol]
    THEN NoKline
    ELSE IF Len(c[symbol][timeframe]) > 0 THEN c[symbol][timeframe][1]
         ELSE NoKline

\* KlineCache.get_latest_kline; NoKline stands for None.
get_latest_kline(c, symbol, timeframe) ==
    IF symbol \notin DOMAIN c \/ timeframe \notin DOMAIN c[symbol]
    THEN NoKline
    ELSE IF Len(c[symbol][timeframe]) > 0
         THEN c[symbol][timeframe][Len(c[symbol][timeframe])]
         ELSE NoKline

\* What a caller holds before any read.
no_read ==
    [op |-> "none", symbol |-> "", timeframe |-> "", limit |-> NoLimit,
     items |-> <<>>, at |-> <<>>, latest |-> NoKline, modified |-> FALSE]

\* The call log after one more add_kline(k).
LogCall(k) ==
    IF calls_full \/ Len(calls) >= MaxLog
    THEN calls' = <<>> /\ calls_full' = TRUE
    ELSE calls' = Append(calls, k) /\ calls_full' = FALSE

(***************************************************************************)
(* Historical bootstrap                                                    *)
(***************************************************************************)
\* One row of the REST answer: [open_time, close].
RestItems == [open_time : OpenTimes, close_price : Prices]

\* The REST answers: at most two rows, oldest first (the exchange returns
\* klines in ascending open_time order); <<>> is also what an HTTP error
\* leaves get_klines with.
RestAnswers ==
    {<<>>} \cup {<<a>> : a \in RestItems}
           \cup {<<a, b>> \in RestItems \X RestItems : a.open_time < b.open_time}

\* BinanceAPIClient.get_klines: every row becomes a Kline with is_final=True.
api_get_klines(symbol, interval, data) ==
    [i \in 1..Len(data) |->
        [symbol |-> symbol, interval |-> interval,
         open_time |-> data[i].open_time,
         close_price |-> data[i].close_price, is_final |-> TRUE]]

RECURSIVE AddAll(_, _)
\* for kline in klines: await kline_cache.add_kline(kline)
AddAll(c, ks) ==
    IF ks = <<>> THEN c ELSE AddAll(add_kline(c, Head(ks)), Tail(ks))


(***************************************************************************)
(* BinanceWebSocketClient                                                  *)
(***************************************************************************)
\* BinanceWebSocketClient.__init__; the attempt limit and the number of
\* registered message handlers are what the embedding program sets.
ws_init(limit, handlers) ==
    [is_connected |-> FALSE, is_reconnecting |-> FALSE, reconnect_count |-> 0,
     max_reconnect_attempts |-> limit, connection |-> 0,
     status_connected |-> FALSE, error_message |-> FALSE,
     last_message |-> FALSE, message_handlers |-> handlers]

\* A connect() that succeeds without resetting the attempt counter.
connect_ok_keeps_count(w, c) ==
    [w EXCEPT !.connection = c, !.is_connected = TRUE,
              !.status_connected = TRUE, !.last_message = TRUE]

\* connect(), websockets.connect returned transport number c (lines 47-60).
connect_ok(w, c) ==
    [w EXCEPT !.connection = c, !.is_connected = TRUE,
              !.status_connected = TRUE, !.last_message = TRUE,
              !.reconnect_count = 0]

\* A connect() that fails without recording the error.
connect_failed_unrecorded(w) ==
    [w EXCEPT !.status_connected = FALSE]

\* connect(), websockets.connect raised (lines 62-66).
connect_failed(w) ==
    [w EXCEPT !.status_connected = FALSE, !.error_message = TRUE]

\* A disconnect() that clears is_reconnecting only and leaves is_connected.
disconnect_begin_keeps_connected(w) ==
    [w EXCEPT !.is_reconnecting = FALSE]

\* disconnect() up to its await of connection.close() (lines 70-74).
disconnect_begin(w) ==
    [w EXCEPT !.is_connected = FALSE, !.is_reconnecting = FALSE]

\* disconnect() after the close, or without one when there is no connection
\* (lines 75-78).
disconnect_end(w, closed) ==
    [w EXCEPT !.connection = IF closed THEN 0 ELSE @,
              !.status_connected = FALSE]

\* The ConnectionState of the specification, read off the client's fields:
\* the source keeps two flags and a counter, and no state of its own for
\* "connecting" (a pending connect) or "terminally_failed" (lines 225-229).
ConnState(w, connecting) ==
    IF w.is_reconnecting THEN "reconnecting"
    ELSE IF w.is_connected THEN "connected"
    ELSE IF w.reconnect_count > w.max_reconnect_attempts THEN "terminally_failed"
    ELSE IF connecting THEN "connecting"
    ELSE "disconnected"

\* A transport is "open", "closing" (close() was called on it and the
\* closing handshake is under way), "closed" (the handshake is over) or
\* "lost" (dropped by the network or the peer).  A connection is closed in
\* the last two states: recv() on it raises ConnectionClosed, which it does
\* in no other state, and close() on it returns without suspending.
Closed(tr, c) == tr[c] \in {"closed", "lost"}

\* connection.close() is called on transport c, which is not closed: the
\* closing handshake starts, unless an earlier close() has started it, and
\* the caller is suspended until the connection is closed.
CloseBegun(tr, c) == [tr EXCEPT ![c] = IF @ = "open" THEN "closing" ELSE @]

\* disconnect() (lines 68-78) from its call to the await of close() that
\* suspends it (conn is then the connection it closes), or to its return
\* (conn is 0) when there is no connection object or the connection is
\* closed already.
disconnect(w, tr) ==
    LET w1 == disconnect_begin(w)
    IN  IF w1.connection # 0 /\ ~Closed(tr, w1.connection)
        THEN [ws |-> w1, transport |-> CloseBegun(tr, w1.connection),
              conn |-> w1.connection]
        ELSE [ws |-> disconnect_end(w1, w1.connection # 0), transport |-> tr,
              conn |-> 0]

\* A start_message_loop task: pc is where it is suspended, conn the
\* connection object it awaits (recv or close), hr whether it has called
\* _handle_reconnect.
NewLoop == [pc |-> "ready", conn |-> 0, hr |-> FALSE, i |-> 0, h |-> 0]

\* The top of the while loop of start_message_loop (lines 129-136), up to
\* the await it suspends in; a false loop condition also makes the test of
\* line 150 false.
EnterLoop(task, w) ==
    IF w.is_connected \/ w.is_reconnecting
    THEN IF w.connection = 0
         THEN [task EXCEPT !.pc = "sleep"]
         ELSE [task EXCEPT !.pc = "recv", !.conn = w.connection]
    ELSE [task EXCEPT !.pc = "done"]

\* Whether some connect() is pending.
Connecting ==
    \/ main_task.pc = "connect"
    \/ \E t \in 1..Len(loops) : loops[t].pc = "hr_connect"

\* The process has not exited and the event loop of asyncio.run(main())
\* runs: it runs main() (phase "main"), or, in the cleanup of asyncio.run
\* (phase "teardown"), the cancelled tasks until they have ended and then
\* shutdown_asyncgens() and shutdown_default_executor().
Running == exit_code = -1 /\ runner.phase \in {"main", "teardown"}

\* The iterations the event loop still makes once main() has returned: the
\* one that runs main's last step, and the next one, in which the callback
\* that stops the loop runs behind the steps that are ready.  A task that
\* is ready runs one step in each.
LateSteps == 2

\* A step of a task other than main().
TaskStep(id) ==
    /\ CopiesIn(id, late) < LateSteps
    /\ late' = IF runner.phase = "main" /\ main_task.pc = "done"
               THEN late (+) SetToBag({id})
               ELSE late

\* The klines the stream delivers and the REST rows of the bootstrap, when
\* the client is driven by main().
StreamKlines ==
    {k \in Klines : k.open_time = 2 /\ k.close_price = 1}
BootAnswers ==
    {d \in RestAnswers :
        \A i \in 1..Len(d) : d[i].open_time <= 2 /\ d[i].close_price = 1}

\* The (symbol, timeframe) pairs in the order initialize_historical_data
\* visits them: symbols outside, timeframes inside.
Pairs ==
    [n \in 1..(Len(symbols) * Len(timeframes)) |->
        <<symbols[((n - 1) \div Len(timeframes)) + 1],
          timeframes[((n - 1) % Len(timeframes)) + 1]>>]

\* A bootstrap that takes itself for finished after its first pair.
BootstrapOverEarly(i) == i > 1

\* The loops of initialize_historical_data are over when pair i is past the
\* last one.
BootstrapOver(i) == i > Len(Pairs)

\* The REST answers for the i-th pair: rows for the first series, none (or
\* an HTTP error) for the others.
BootAnswersFor(i) == IF i = 1 THEN BootAnswers ELSE {<<>>}

\* The exit status of main(): sys.exit(1) when the first connect() failed
\* (line 47), 0 when main runs to its end.
main_exit(connected) == IF connected THEN 0 ELSE 1

\* str.lower() on the configured symbols.
Lower(s) ==
    CASE s = "BTCUSDT" -> "btcusdt"
      [] s = "ETHUSDT" -> "ethusdt"
      [] OTHER -> s

\* f"{symbol.lower()}@kline_{tf}"
StreamName(symbol, tf) == Lower(symbol) \o "@kline_" \o tf

\* The SUBSCRIBE message subscribe_klines(symbol, timeframes) hands to
\* connection.send, and whether the send returned (ok) or raised.
Request(symbol, ok) ==
    [symbol |-> symbol, method |-> "SUBSCRIBE",
     params |-> [j \in 1..Len(timeframes) |-> StreamName(symbol, timeframes[j])],
     ok |-> ok]

\* A subscribe_all that gives up at the first failed subscription.
after_send_abort(i, ok) == IF ok THEN i + 1 ELSE Len(symbols) + 1

\* The for loop of subscribe_all: the symbol that follows symbol i, whether
\* its subscription succeeded or not.
after_send(i, ok) == i + 1

\* subscribe_all from symbol i on, up to the send it suspends in: the task
\* awaits the send for symbol i on the current connection; when the client
\* is not connected (or has no connection object, which makes the send
\* raise at once) every remaining subscribe_klines returns False without a
\* request and subscribe_all returns (overpc).
SubscribeNext(task, w, i, sendpc, overpc) ==
    IF i <= Len(symbols) /\ w.is_connected /\ w.connection # 0
    THEN [task EXCEPT !.pc = sendpc, !.i = i, !.conn = w.connection]
    ELSE [task EXCEPT !.pc = overpc]

\* A reconnection whose task goes on receiving after it has created the
\* new message loop task.
reconnect_end_keeps_receiving(task) == [task EXCEPT !.pc = "ready"]

\* _handle_reconnect returns, and start_message_loop with it (lines 247, 151).
reconnect_end(task) == [task EXCEPT !.pc = "done"]

\* add_message_handler (lines 254-256): self.message_handlers.append(handler).
add_message_handler(w) == [w EXCEPT !.message_handlers = @ + 1]

\* The call handler(kline) of the i-th registered handler.
HandlerCall(i, k) == [handler |-> i, kline |-> k, raised |-> FALSE]

\* A handler loop that stops at the first handler that raises.
handler_next_stops(h, n, raised) == IF h < n /\ ~raised THEN h + 1 ELSE 0

\* for handler in self.message_handlers, with the try/except around every
\* call: the handler called after handler h of n, 0 when h was the last.
handler_next(h, n, raised) == IF h < n THEN h + 1 ELSE 0

(***************************************************************************)
(* Frames.  A frame is what json.loads makes of it: its shape, for an      *)
(* object its keys, and the fields of data / data.k that _handle_kline_data *)
(* reads.                                                                  *)
(***************************************************************************)
\* A field that is absent (a number field; an absent string field is "").
MissingField == -1
\* A field whose value is a string that is no number, such as "abc".
NotANumber == 0

\* The combined-stream kline event that carries kline k.
WellFormed(k) ==
    [shape |-> "object", keys |-> {"stream", "data"}, s |-> k.symbol,
     k |-> TRUE, i |-> k.interval, t |-> k.open_time, c |-> k.close_price,
     x |-> IF k.is_final THEN "true" ELSE "false"]

\* A well-formed kline event to derive the others from.
SampleFrame ==
    [shape |-> "object", keys |-> {"stream", "data"}, s |-> symbols[1],
     k |-> TRUE, i |-> timeframes[1], t |-> 2, c |-> 1, x |-> "false"]

\* Subscription acknowledgments and error envelopes.
OtherFrames ==
    {[SampleFrame EXCEPT !.keys = {"result", "id"}],
     [SampleFrame EXCEPT !.keys = {"error"}]}

\* Frames that are no JSON, JSON of no known shape, or kline events with a
\* missing or unparsable field.
BadFrames ==
    {[SampleFrame EXCEPT !.shape = "not_json"],
     [SampleFrame EXCEPT !.shape = "number"],
     [SampleFrame EXCEPT !.shape = "null"],
     [SampleFrame EXCEPT !.shape = "string"],
     [SampleFrame EXCEPT !.shape = "list"],
     [SampleFrame EXCEPT !.keys = {}],
     [SampleFrame EXCEPT !.keys = {"stream"}],
     [SampleFrame EXCEPT !.s = ""],
     [SampleFrame EXCEPT !.k = FALSE],
     [SampleFrame EXCEPT !.i = ""],
     [SampleFrame EXCEPT !.t = MissingField],
     [SampleFrame EXCEPT !.c = MissingField],
     [SampleFrame EXCEPT !.x = ""],
     [SampleFrame EXCEPT !.c = NotANumber],
     [SampleFrame EXCEPT !.t = NotANumber]}

\* The frames the stream delivers, when the client is driven by main().
StreamFrames == {WellFormed(k) : k \in StreamKlines} \cup OtherFrames \cup BadFrames

\* What a frame does to the cache: nothing, or the upsert of a kline.
Dropped == [upsert |-> FALSE, kline |-> NoKline]

\* _handle_kline_data up to add_kline: data["data"] needs an object, every
\* field read must be there (KeyError), and float() must accept the price
\* (ValueError); s, i, t and x are stored as they come.
handle_kline_data(f) ==
    IF \/ f.shape # "object"
       \/ f.s = ""
       \/ ~f.k
       \/ f.i = ""
       \/ f.t = MissingField
       \/ f.c = MissingField
       \/ f.c = NotANumber
       \/ f.x = ""
    THEN Dropped
    ELSE [upsert |-> TRUE,
          kline |-> [symbol |-> f.s, interval |-> f.i, open_time |-> f.t,
                     close_price |-> f.c, is_final |-> (f.x = "true")]]

\* _handle_message: json.loads, then the tests of lines 159-168; the "in"
\* tests raise TypeError on a number or null, and are substring or member
\* tests on a string or a list.
handle_message(f) ==
    IF f.shape \in {"not_json", "number", "null"} THEN Dropped
    ELSE IF "stream" \in f.keys /\ "data" \in f.keys THEN handle_kline_data(f)
    ELSE Dropped

RECURSIVE LogAll(_, _, _)
\* The call log <<calls, calls_full>> after the add_kline calls of ks.
LogAll(log, full, ks) ==
    IF ks = <<>> THEN <<log, full>>
    ELSE IF full \/ Len(log) >= MaxLog THEN <<<<>>, TRUE>>
    ELSE LogAll(Append(log, Head(ks)), full, Tail(ks))

(***************************************************************************)
(* KlineCache.lock                                                         *)
(*                                                                         *)
(* Every cache operation runs "async with self.lock".  asyncio.Lock is     *)
(* written for the coroutines of one event loop: acquire() tests _locked   *)
(* and _waiters and then assigns _locked, release() resolves the future of *)
(* the first waiter.  The ingestion coroutines run on the main event loop; *)
(* tech_analysis_tool, called from a worker thread, runs get_klines on an  *)
(* event loop of its own that it creates and closes for every call.        *)
(***************************************************************************)
\* asyncio.Lock(): unlocked, _waiters is None (made = FALSE), bound to no
\* event loop (-1).  Event loop 0 is the main one, n >= 1 that of the n-th
\* call of the tool.
lock_init == [locked |-> FALSE, made |-> FALSE, waiters |-> <<>>, loop |-> -1]

\* The threads that use the cache: the event loop thread of the ingestion
\* and the thread the analysis tool runs in.
ThreadIds == {"ingest", "tool"}

\* The event loop a thread's coroutine runs on.
LoopOf(th, n) == IF th = "ingest" THEN 0 ELSE n

\* The iterator a thread holds over the _waiters deque inside the test of
\* acquire(): none, one over the waiters the deque had when it was made
\* (all(w.cancelled() ...) is True over none and False over some, no waiter
\* being cancelled here), or one whose deque was mutated since ("stale").
iter_over(ws_) == IF ws_ = <<>> THEN "empty" ELSE "some"

\* A mutation of the _waiters deque (append, remove) by thread th: every
\* iterator another thread holds over the deque is stale.
mutated(ts, th) ==
    [t \in ThreadIds |->
        IF t # th /\ ts[t].it \in {"empty", "some"}
        THEN [ts[t] EXCEPT !.it = "stale"] ELSE ts[t]]

\* Lock._get_loop for a caller on event loop lp: the lock binds itself to the
\* first loop that has to wait for it.
get_loop(l, lp) == IF l.loop = -1 THEN lp ELSE l.loop

\* Lock._wake_up_first: the future of the first waiter is resolved.
wake_up_first(ws_) ==
    IF ws_ = <<>> THEN ws_ ELSE [ws_ EXCEPT ![1].done = TRUE]

\* A sequence without the entries of thread th.
RECURSIVE WithoutThread(_, _)
WithoutThread(s, th) ==
    IF s = <<>> THEN <<>>
    ELSE IF Head(s).th = th THEN WithoutThread(Tail(s), th)
    ELSE <<Head(s)>> \o WithoutThread(Tail(s), th)

(***************************************************************************)
(* tech_analysis_tool                                                      *)
(*                                                                         *)
(* A snapshot is what the indicators read off it: its number of candles,   *)
(* whether its ema20 is above its ema50, whether one of the two is 0.0,    *)
(* the sign of the OBV slope over its last five candles, whether the       *)
(* volumes the VWAP is taken over have a positive sum, and whether the     *)
(* Bollinger bands are apart.  A timeframe result is the set of its        *)
(* fields that have a value (a key that is missing and a key that holds    *)
(* None are both without value) and the labels the consensus reads.  The   *)
(* labels "up", "down", "choppy", "bullish", "bearish" and "neutral" stand  *)
(* for the string literals of lines 36, 96 and 222.                        *)
(***************************************************************************)
\* TA-Lib: the number of leading NaN of each output (the index of its first
\* value), as TA_RSI_Lookback, TA_ATR_Lookback, TA_ADX_Lookback,
\* TA_MACD_Lookback and TA_BBANDS_Lookback give them with no unstable period
\* set.
RSI_lookback(timeperiod) == timeperiod
NATR_lookback(timeperiod) == timeperiod
ADX_lookback(timeperiod) == 2 * timeperiod - 1
MACD_lookback(slowperiod, signalperiod) == (slowperiod - 1) + (signalperiod - 1)
BBANDS_lookback(timeperiod) == timeperiod - 1

\* A last value that needs one candle more than the library does.
not_nan_late(n, lookback) == n > lookback + 1

\* not np.isnan(out[-1]) for an output of n values with the given lookback.
not_nan(n, lookback) == n > lookback

\* talib.OBV(closes, volumes) (line 217): the first value is the first
\* volume, then the volume of a candle is added when its close is above the
\* previous close and subtracted when it is below.
RECURSIVE OBV(_)
OBV(ks) ==
    IF ks = <<>> THEN <<>>
    ELSE IF Len(ks) = 1 THEN <<ks[1].volume>>
    ELSE LET obv == OBV(SubSeq(ks, 1, Len(ks) - 1))
             prev == ks[Len(ks) - 1].close
             k == ks[Len(ks)]
         IN  Append(obv, IF k.close > prev THEN obv[Len(obv)] + k.volume
                         ELSE IF k.close < prev THEN obv[Len(obv)] - k.volume
                         ELSE obv[Len(obv)])

\* Line 221: obv_slope = (obv[-1] - obv[-5]) / 5 if obv[-5] != 0 else 0, in
\* fifths (the numerator of the quotient, which has its sign).
obv_slope_x5(obv) ==
    IF obv[Len(obv) - 4] # 0 THEN obv[Len(obv)] - obv[Len(obv) - 4] ELSE 0

\* The sign of obv_slope as a label (line 222).
obv_trend_label(slope) ==
    IF slope > 0 THEN "bullish" ELSE IF slope < 0 THEN "bearish" ELSE "neutral"

\* An empty snapshot that is reported as a timeframe with a neutral OBV.
no_data_neutral ==
    [error |-> TRUE, data_points |-> 0, fields |-> {"obv_trend"},
     ema_up |-> FALSE, ema_truthy |-> FALSE, obv_trend |-> "neutral"]

\* The entry of a timeframe whose snapshot is empty (lines 148-154).
no_data ==
    [error |-> TRUE, data_points |-> 0, fields |-> {}, ema_up |-> FALSE,
     ema_truthy |-> FALSE, obv_trend |-> ""]

\* What the indicators read off a snapshot: ema_up is ema20 > ema50,
\* ema_zero that ema20 or ema50 is 0.0, obv_slope the sign of the OBV slope,
\* has_volume is np.sum(volume_data) > 0 (line 230), bands_apart is
\* bb_upper[-1] and bb_lower[-1] and bb_upper[-1] != bb_lower[-1] (line 202).
\* The candles of a snapshot are any floats, so every combination of the
\* five is the reading of some snapshot.
Slopes == {-1, 0, 1}

Readings ==
    [ema_up : BOOLEAN, ema_zero : BOOLEAN, obv_slope : Slopes,
     has_volume : BOOLEAN, bands_apart : BOOLEAN]

\* The body of the timeframe loop of tech_analysis_tool (lines 143-255) for
\* a snapshot of n candles with the readings s: the fields that get a
\* value, and what the consensus reads of the two averages.
timeframe_result(n, s) ==
    IF n = 0 THEN no_data
    ELSE
    [error |-> FALSE,
     data_points |-> n,
     fields |->
        {"current_price", "price_change", "price_change_percent"}
        \cup (IF n >= 20 THEN {"ema20"} ELSE {})
        \cup (IF n >= 50 THEN {"ema50"} ELSE {})
        \cup (IF not_nan(n, MACD_lookback(26, 9))
              THEN {"macd_line", "signal_line", "macd_histogram"} ELSE {})
        \cup (IF not_nan(n, RSI_lookback(7)) THEN {"rsi7"} ELSE {})
        \cup (IF not_nan(n, RSI_lookback(14)) THEN {"rsi14"} ELSE {})
        \cup (IF not_nan(n, NATR_lookback(14)) THEN {"natr"} ELSE {})
        \cup (IF n >= 20 /\ not_nan(n, BBANDS_lookback(20))
              THEN {"bb_upper", "bb_middle", "bb_lower"} ELSE {})
        \cup (IF n >= 20 /\ s.bands_apart THEN {"bb_position"} ELSE {})
        \cup (IF n >= 14 /\ not_nan(n, ADX_lookback(14)) THEN {"adx"} ELSE {})
        \cup (IF n > 0 THEN {"obv"} ELSE {})
        \cup (IF n > 0 /\ s.has_volume THEN {"vwap"} ELSE {})
        \cup (IF n >= 5 THEN {"obv_trend"} ELSE {})
        \cup (IF n >= 20 THEN {"resistance_level", "support_level"} ELSE {}),
     ema_up |-> n >= 50 /\ s.ema_up,
     ema_truthy |-> n >= 50 /\ ~s.ema_zero,
     obv_trend |-> IF n >= 5 THEN obv_trend_label(s.obv_slope) ELSE ""]

\* overall_signals = {} (line 18).
no_signals ==
    [keys |-> {}, trend_count |-> 0, trend_total |-> 0, trend_direction |-> "",
     obv_consensus |-> ""]

\* Lines 35-36: trend_consistency = k / n compared with 0.6 and 0.4.  The
\* float quotient k / n is the double nearest to the exact quotient, which
\* is the double of the literal when the quotient is 3/5 or 2/5, so the
\* comparisons are those of the exact quotient.
trend_label(k, n) ==
    IF 10 * k > 6 * n THEN "up" ELSE IF 10 * k < 4 * n THEN "down" ELSE "choppy"

\* Line 96: the consensus of the OBV labels.
obv_label(bullish_count, bearish_count) ==
    IF bullish_count > bearish_count THEN "bullish"
    ELSE IF bearish_count > bullish_count THEN "bearish"
    ELSE "neutral"

\* The keys a consensus metric puts into overall_signals when some entry of
\* the analysis has the field it reads.
MetricKeys(a, field, keys) ==
    IF \E i \in 1..Len(a) : field \in a[i].fields THEN keys ELSE {}

\* _generate_overall_signals (lines 16-98).
_generate_overall_signals(a) ==
    LET BothEma(d) == ~d.error /\ d.ema_truthy
        Above(d) == BothEma(d) /\ d.ema_up
        Bullish(d) == d.obv_trend = "bullish"
        Bearish(d) == d.obv_trend = "bearish"
        total_timeframes == Cardinality({i \in 1..Len(a) : BothEma(a[i])})
        ema20_above_ema50_count == Cardinality({i \in 1..Len(a) : Above(a[i])})
        bullish_count == Cardinality({i \in 1..Len(a) : Bullish(a[i])})
        bearish_count == Cardinality({i \in 1..Len(a) : Bearish(a[i])})
        has_obv == \E i \in 1..Len(a) : "obv_trend" \in a[i].fields
    IN  [keys |->
            (IF total_timeframes > 0
             THEN {"trend_direction", "trend_consistency"} ELSE {})
            \cup MetricKeys(a, "rsi7", {"avg_rsi7", "rsi7_signal"})
            \cup MetricKeys(a, "rsi14", {"avg_rsi14", "rsi14_signal"})
            \cup MetricKeys(a, "macd_histogram", {"macd_consensus"})
            \cup MetricKeys(a, "adx", {"avg_adx", "market_regime"})
            \cup MetricKeys(a, "bb_position", {"avg_bb_position", "bb_signal"})
            \cup MetricKeys(a, "obv_trend", {"obv_consensus"}),
         trend_count |-> IF total_timeframes > 0 THEN ema20_above_ema50_count ELSE 0,
         trend_total |-> total_timeframes,
         trend_direction |->
            IF total_timeframes > 0
            THEN trend_label(ema20_above_ema50_count, total_timeframes) ELSE "",
         obv_consensus |->
            IF has_obv THEN obv_label(bullish_count, bearish_count) ELSE ""]

(***************************************************************************)
(* The cache under an arbitrary caller                                     *)
(***************************************************************************)
\* The state once the modules are imported: the global kline_cache and
\* ws_client instances exist, nothing runs yet.
Imported(limit, handlers) ==
    /\ cache = _initialize_cache
    /\ calls = <<>>
    /\ calls_full = FALSE
    /\ last_call = [op |-> "none", kline |-> NoKline]
    /\ ws = ws_init(limit, handlers)
    /\ transport = <<>>
    /\ loops = <<>>
    /\ main_task = [pc |-> "bootstrap", conn |-> 0, i |-> 1]
    /\ shutdown_task = [pc |-> "idle", conn |-> 0]
    /\ exit_code = -1
    /\ losses = 0
    /\ trail = <<>>
    /\ failed_reconnects = 0
    /\ attempts = 0
    /\ reconnected = FALSE
    /\ disc_hit = [main |-> {}, shutdown |-> {}, pending |-> {}]
    /\ late = EmptyBag
    /\ runner = [phase |-> "starting", status |-> 0]
    /\ sent = <<>>
    /\ delivered = <<>>
    /\ connect_ret = "none"
    /\ lock = lock_init
    /\ threads = [t \in ThreadIds |->
                    [pc |-> "idle", n |-> 0, kline |-> NoKline, it |-> "none"]]
    /\ returned = no_read
    /\ analysis = <<>>
    /\ overall = no_signals

\* The same, with no snapshot taken by the tool.
Constructed(limit, handlers) ==
    /\ Imported(limit, handlers)
    /\ tool_klines = <<>>

CacheInit == Constructed(MaxAttempts, 0)

\* One add_kline call with any kline.
AddKline(k) ==
    /\ cache' = add_kline(cache, k)
    /\ LogCall(k)
    /\ last_call' = [op |-> "add_kline", kline |-> k]
    /\ UNCHANGED <<clientVars, threadVars, readerVars>>

\* initialize_historical_data for one symbol and timeframe, on a cache that
\* has not been written yet.
InitializeHistoricalData(s, tf, data) ==
    /\ calls = <<>> /\ ~calls_full
    /\ Len(data) <= MaxLog
    /\ LET ks == api_get_klines(s, tf, data)
       IN  /\ cache' = AddAll(cache, ks)
           /\ calls' = ks
           /\ calls_full' = FALSE
           /\ last_call' = [op |-> "initialize_historical_data",
                            kline |-> IF ks = <<>> THEN NoKline ELSE ks[Len(ks)]]
    /\ UNCHANGED <<clientVars, threadVars, readerVars>>

CacheAddKline == \E k \in Klines : AddKline(k)

\* The bootstrap of the series the klines are offered to.
CacheBootstrap ==
    \E data \in RestAnswers :
        /\ data # <<>>
        /\ InitializeHistoricalData(symbols[1], timeframes[1], data)

CacheNext == CacheAddKline \/ CacheBootstrap

SpecCache == CacheInit /\ [][CacheNext]_vars

(***************************************************************************)
(* The cache over several series                                           *)
(***************************************************************************)
\* Klines of two configured symbols and of one that is not configured, of
\* a configured timeframe and of one that is not.
AnyKlines ==
    [symbol : {symbols[1], symbols[2], "SOLUSDT"},
     interval : {timeframes[1], "1d"},
     open_time : {1, 2}, close_price : {1}, is_final : BOOLEAN]

\* add_kline with a kline of any series, while the call log has room.
SeriesAddKline(k) ==
    /\ ~calls_full /\ Len(calls) < MaxLog
    /\ AddKline(k)

SeriesNext == \E k \in AnyKlines : SeriesAddKline(k)

SpecSeries == CacheInit /\ [][SeriesNext]_vars

(***************************************************************************)
(* The cache and its readers                                               *)
(*                                                                         *)
(* The operations run one at a time, as the coroutines of one event loop   *)
(* do.  The klines arrive as the stream sends them: an update of the       *)
(* newest candle or the candle that follows it.                            *)
(***************************************************************************)
\* The limits a reader passes.
Limits == {NoLimit} \cup (0..(max_klines + 1))

\* The series a reader asks for: the one that is written, a configured one
\* that stays empty, an unknown symbol and an unknown timeframe.
ReadKeys ==
    {<<symbols[1], timeframes[1]>>, <<symbols[2], timeframes[1]>>,
     <<"UNKNOWN", timeframes[1]>>, <<symbols[1], "1m">>}

\* The provisional klines of consecutive candles.
ReadKlines == {k \in Klines : ~k.is_final}

\* add_kline(k) while a reader holds what an earlier read returned: the
\* list the reader holds is not the deque, and add_kline assigns to no field
\* of a stored Kline, so the list keeps its entries; the objects of its
\* entries may leave the deque.
ReadsAddKline(k) ==
    /\ LET dq == cache[k.symbol][k.interval]
       IN  /\ IF dq = <<>> THEN k.open_time = 1
              ELSE k.open_time \in {dq[Len(dq)].open_time, dq[Len(dq)].open_time + 1}
           /\ returned' =
                 IF k.symbol = returned.symbol /\ k.interval = returned.timeframe
                 THEN [returned EXCEPT
                         !.at = [i \in 1..Len(@) |-> place_after_add(@[i], dq, k)]]
                 ELSE returned
    /\ cache' = add_kline(cache, k)
    /\ LogCall(k)
    /\ last_call' = [op |-> "add_kline", kline |-> k]
    /\ UNCHANGED <<clientVars, threadVars, analysis, overall, tool_klines>>

\* get_klines(symbol, timeframe, limit) returns to its caller.
ReadGetKlines(s, tf, limit) ==
    /\ returned' =
          [op |-> "get_klines", symbol |-> s, timeframe |-> tf, limit |-> limit,
           items |-> get_klines(cache, s, tf, limit),
           at |-> get_klines_objects(cache, s, tf, limit),
           latest |-> NoKline, modified |-> FALSE]
    /\ UNCHANGED <<cacheVars, clientVars, threadVars, analysis, overall, tool_klines>>

\* get_latest_kline(symbol, timeframe) returns to its caller.
ReadGetLatest(s, tf) ==
    /\ returned' =
          [op |-> "get_latest_kline", symbol |-> s, timeframe |-> tf,
           limit |-> NoLimit, items |-> <<>>, at |-> <<>>,
           latest |-> get_latest_kline(cache, s, tf), modified |-> FALSE]
    /\ UNCHANGED <<cacheVars, clientVars, threadVars, analysis, overall, tool_klines>>

\* The caller removes the last entry of the list it was given (list.pop()):
\* the list is not the deque, which keeps its entries.
CallerRemoves ==
    /\ returned.op = "get_klines"
    /\ returned.items # <<>>
    /\ returned' = [returned EXCEPT
                      !.items = SubSeq(@, 1, Len(@) - 1),
                      !.at = SubSeq(@, 1, Len(@) - 1),
                      !.modified = TRUE]
    /\ UNCHANGED <<cacheVars, clientVars, threadVars, analysis, overall,
                   tool_klines>>

\* The caller assigns close price p to entry i of the list it was given
\* (klines[i].close_price = p).  Kline is a dataclass that is not frozen
\* (market/types.py, lines 10-26), and the entry is the object the deque
\* holds, as long as it holds it: the cache has the new price too, and so
\* has the kline of the last add_kline when that is the object.
CallerAssigns(i, p) ==
    /\ returned.op = "get_klines"
    /\ i \in 1..Len(returned.items)
    /\ returned.items[i].close_price # p
    /\ returned' = [returned EXCEPT !.items[i].close_price = p,
                                    !.modified = TRUE]
    /\ IF returned.at[i] # 0
       THEN LET dq == cache[returned.symbol][returned.timeframe]
            IN  /\ cache' = [cache EXCEPT
                               ![returned.symbol][returned.timeframe]
                                   [returned.at[i]].close_price = p]
                /\ last_call' =
                      IF /\ last_call.op = "add_kline"
                         /\ last_call.kline.symbol = returned.symbol
                         /\ last_call.kline.interval = returned.timeframe
                         /\ returned.at[i] = Len(dq)
                      THEN [last_call EXCEPT !.kline.close_price = p]
                      ELSE last_call
       ELSE UNCHANGED <<cache, last_call>>
    /\ UNCHANGED <<calls, calls_full, clientVars, threadVars, analysis, overall,
                   tool_klines>>

CallerModifies ==
    \/ CallerRemoves
    \/ \E i \in 1..max_klines, p \in Prices : CallerAssigns(i, p)

ReadsAdd == \E k \in ReadKlines : ReadsAddKline(k)

ReadsGet == \E key \in ReadKeys, limit \in Limits : ReadGetKlines(key[1], key[2], limit)

ReadsLatest == \E key \in ReadKeys : ReadGetLatest(key[1], key[2])

ReadsNext == ReadsAdd \/ ReadsGet \/ ReadsLatest \/ CallerModifies

SpecReads == CacheInit /\ [][ReadsNext]_vars

(***************************************************************************)
(* tech_analysis_tool over the configured timeframes                       *)
(***************************************************************************)
\* The timeframe loop of tech_analysis_tool analyses the snapshot of the
\* next configured timeframe: n candles with the readings s.
ToolAnalyze(n, s) ==
    /\ Len(analysis) < Len(timeframes)
    /\ overall = no_signals
    /\ analysis' = Append(analysis, timeframe_result(n, s))
    /\ UNCHANGED <<cacheVars, clientVars, threadVars, returned, overall, tool_klines>>

\* The loop is over: the result is built with its overall_signals
\* (lines 258-263).
ToolReturns ==
    /\ Len(analysis) = Len(timeframes)
    /\ overall' = _generate_overall_signals(analysis)
    /\ UNCHANGED <<cacheVars, clientVars, threadVars, returned, analysis, tool_klines>>

ToolSnapshot ==
    /\ Len(analysis) < Len(timeframes)
    /\ \E n \in 0..MaxCandles, s \in Readings : ToolAnalyze(n, s)

ToolNext == ToolSnapshot \/ ToolReturns

SpecTool == CacheInit /\ [][ToolNext]_vars

(***************************************************************************)
(* The OBV trend of one timeframe                                          *)
(***************************************************************************)
\* The close and the volume of the candles of a snapshot.
Closes == {1, 2}
Volumes == {0, 1}
Candles == [close : Closes, volume : Volumes]

\* The snapshots get_klines_sync returns (lines 116-138, 144): up to
\* MaxSnapshot candles.
Snapshots == UNION {[1..n -> Candles] : n \in 0..MaxSnapshot}

\* The sign of a number.
Sign(x) == IF x > 0 THEN 1 ELSE IF x < 0 THEN -1 ELSE 0

\* What the indicators read off the candles ks of a snapshot of fewer than
\* 50 candles with closes of 1 and 2: ema50 has no value, the OBV slope is
\* that of lines 216-221, the volumes of the VWAP are all of them (lines
\* 227-230), and the bands are apart (and neither is 0) when the closes
\* differ.
Reading(ks) ==
    [ema_up |-> FALSE, ema_zero |-> FALSE,
     obv_slope |-> IF Len(ks) >= 5 THEN Sign(obv_slope_x5(OBV(ks))) ELSE 0,
     has_volume |-> \E i \in 1..Len(ks) : ks[i].volume > 0,
     bands_apart |-> \E i, j \in 1..Len(ks) : ks[i].close # ks[j].close]

\* tech_analysis_tool has the klines of a timeframe and has analysed none.
ObvInit ==
    /\ Imported(MaxAttempts, 0)
    /\ tool_klines \in Snapshots

\* The body of the timeframe loop for that snapshot (lines 147-255): its
\* entry of multi_timeframe_analysis, with the OBV trend of lines 216-222.
ObvAnalyze ==
    /\ analysis = <<>>
    /\ analysis' = <<timeframe_result(Len(tool_klines), Reading(tool_klines))>>
    /\ UNCHANGED <<cacheVars, clientVars, threadVars, returned, overall,
                   tool_klines>>

ObvNext == ObvAnalyze

SpecObv == ObvInit /\ [][ObvNext]_vars

(***************************************************************************)
(* _generate_overall_signals over any analysis                             *)
(***************************************************************************)
\* The sizes of the snapshots of the timeframes of an analysis: the empty
\* snapshot and, up to MaxCandles, every number of candles from which on
\* the timeframe loop gives a field more a value.
SnapshotSizes ==
    {n \in 0..MaxCandles :
        \/ n = 0
        \/ \E s \in Readings :
              timeframe_result(n, s).fields # timeframe_result(n - 1, s).fields}

\* The entries of multi_timeframe_analysis: the results of the timeframe
\* loop for the snapshots of these sizes, with any readings.
SignalInputs ==
    {timeframe_result(n, s) : n \in SnapshotSizes, s \in Readings}

\* One more timeframe in the analysis handed to _generate_overall_signals.
SignalsAdd(in) ==
    /\ Len(analysis) < MaxFrames
    /\ overall = no_signals
    /\ analysis' = Append(analysis, in)
    /\ UNCHANGED <<cacheVars, clientVars, threadVars, returned, overall, tool_klines>>

\* _generate_overall_signals(multi_timeframe_analysis) returns.
SignalsGenerate ==
    /\ overall' = _generate_overall_signals(analysis)
    /\ UNCHANGED <<cacheVars, clientVars, threadVars, returned, analysis, tool_klines>>

SignalsInput ==
    /\ Len(analysis) < MaxFrames /\ overall = no_signals
    /\ \E in \in SignalInputs : SignalsAdd(in)

SignalsNext == SignalsInput \/ SignalsGenerate

SpecSignals == CacheInit /\ [][SignalsNext]_vars

(***************************************************************************)
(* The cache under the ingestion and the analysis tool                     *)
(*                                                                         *)
(* The two threads interleave wherever the interpreter may switch threads: *)
(* at calls.  Once the lock has a _waiters deque the test of acquire()     *)
(* holds a call, of all() over a generator: _locked is read and the        *)
(* iterator over the deque is made before it, the waiters are gone over    *)
(* after it, and the assignment follows.  Before the deque exists the test *)
(* and the assignment hold no call.  The statements of the waiting path    *)
(* and of release() are calls.                                             *)
(***************************************************************************)
\* A thread calls its cache operation: the ingestion add_kline(k), the tool
\* get_klines on a new event loop.
OpCall(th) ==
    /\ threads[th].pc = "idle"
    /\ IF th = "tool"
       THEN /\ threads[th].n < MaxReads
            /\ threads' = [threads EXCEPT ![th].pc = "acquire", ![th].n = @ + 1]
       ELSE \E k \in StreamKlines :
               threads' = [threads EXCEPT ![th].pc = "acquire", ![th].kline = k]
    /\ UNCHANGED <<cacheVars, clientVars, lock, readerVars>>

\* Lock.acquire up to its first call.  Without a _waiters deque the lock is
\* taken at once, or the caller goes on to the call of deque().  With one, a
\* locked lock sends the caller to the call of _get_loop(); on a lock read
\* as not locked the iterator over the deque is made and the call of all()
\* is still to come.
AcquireTest(th) ==
    /\ threads[th].pc = "acquire"
    /\ threads[th].it = "none"
    /\ IF ~lock.made
       THEN IF ~lock.locked
            THEN /\ threads' = [threads EXCEPT ![th].pc = "cs"]
                 /\ lock' = [lock EXCEPT !.locked = TRUE]
            ELSE /\ threads' = [threads EXCEPT ![th].pc = "deque"]
                 /\ UNCHANGED lock
       ELSE /\ threads' = IF lock.locked
                          THEN [threads EXCEPT ![th].pc = "get_loop"]
                          ELSE [threads EXCEPT ![th].it = iter_over(lock.waiters)]
            /\ UNCHANGED lock
    /\ UNCHANGED <<cacheVars, clientVars, readerVars>>

\* Lock.acquire: all(w.cancelled() for w in self._waiters), after _locked
\* was read as False.  The iterator raises RuntimeError (deque mutated
\* during iteration) when the deque was appended to or removed from since
\* it was made, and the operation fails; else the waiters it goes over
\* decide between the assignment and the waiting path.  _locked is not read
\* again.
AcquireAll(th) ==
    /\ threads[th].pc = "acquire"
    /\ threads[th].it # "none"
    /\ threads' = [threads EXCEPT
                      ![th].it = "none",
                      ![th].pc = IF threads[th].it = "stale" THEN "idle"
                                 ELSE IF threads[th].it = "empty" THEN "set"
                                 ELSE "get_loop"]
    /\ UNCHANGED <<cacheVars, clientVars, lock, readerVars>>

\* Lock.acquire: self._waiters = collections.deque(), the assignment after
\* the call of deque().
AcquireDeque(th) ==
    /\ threads[th].pc = "deque"
    /\ lock' = [lock EXCEPT !.made = TRUE, !.waiters = <<>>]
    /\ threads' = [threads EXCEPT ![th].pc = "get_loop"]
    /\ UNCHANGED <<cacheVars, clientVars, readerVars>>

\* Lock.acquire: self._get_loop().create_future().  _get_loop binds the
\* lock to the caller's event loop, or raises RuntimeError because the lock
\* is bound to another one and the operation fails; create_future touches
\* nothing the threads share.
AcquireGetLoop(th) ==
    /\ threads[th].pc = "get_loop"
    /\ LET lp == LoopOf(th, threads[th].n)
       IN  IF get_loop(lock, lp) # lp
           THEN /\ threads' = [threads EXCEPT ![th].pc = "idle"]
                /\ UNCHANGED lock
           ELSE /\ threads' = [threads EXCEPT ![th].pc = "append"]
                /\ lock' = [lock EXCEPT !.loop = lp]
    /\ UNCHANGED <<cacheVars, clientVars, readerVars>>

\* Lock.acquire: self._waiters.append(fut); the caller then awaits fut.
AcquireAppend(th) ==
    /\ threads[th].pc = "append"
    /\ lock' = [lock EXCEPT !.waiters = Append(@, [th |-> th, done |-> FALSE])]
    /\ threads' = [mutated(threads, th) EXCEPT ![th].pc = "wait"]
    /\ UNCHANGED <<cacheVars, clientVars, readerVars>>

\* Lock.acquire: self._locked = True, on the path without waiting and after
\* the waiter has left the deque.
AcquireSet(th) ==
    /\ threads[th].pc = "set"
    /\ lock' = [lock EXCEPT !.locked = TRUE]
    /\ threads' = [threads EXCEPT ![th].pc = "cs"]
    /\ UNCHANGED <<cacheVars, clientVars, readerVars>>

\* Lock.acquire: the waiter's future was resolved; the waiter leaves the
\* deque (self._waiters.remove(fut)), the assignment is still to come.
AcquireWake(th) ==
    /\ threads[th].pc = "wait"
    /\ \E i \in 1..Len(lock.waiters) :
          lock.waiters[i].th = th /\ lock.waiters[i].done
    /\ lock' = [lock EXCEPT !.waiters = WithoutThread(@, th)]
    /\ threads' = [mutated(threads, th) EXCEPT ![th].pc = "set"]
    /\ UNCHANGED <<cacheVars, clientVars, readerVars>>

\* The body of the "async with": the upsert of add_kline, the copy of
\* get_klines.
CriticalSection(th) ==
    /\ threads[th].pc = "cs"
    /\ threads' = [threads EXCEPT ![th].pc = "release"]
    /\ IF th = "ingest"
       THEN /\ cache' = add_kline(cache, threads[th].kline)
            /\ LogCall(threads[th].kline)
            /\ last_call' = [op |-> "add_kline", kline |-> threads[th].kline]
       ELSE UNCHANGED cacheVars
    /\ UNCHANGED <<clientVars, lock, readerVars>>

\* Lock.release at the end of the "async with": self._locked = False, the
\* call of _wake_up_first still to come; on a lock that is not locked it
\* raises RuntimeError.
Release(th) ==
    /\ threads[th].pc = "release"
    /\ IF lock.locked
       THEN /\ lock' = [lock EXCEPT !.locked = FALSE]
            /\ threads' = [threads EXCEPT ![th].pc = "wake"]
       ELSE /\ threads' = [threads EXCEPT ![th].pc = "idle"]
            /\ UNCHANGED lock
    /\ UNCHANGED <<cacheVars, clientVars, readerVars>>

\* Lock._wake_up_first, called by release: the future of the first waiter
\* is resolved.
ReleaseWake(th) ==
    /\ threads[th].pc = "wake"
    /\ lock' = [lock EXCEPT !.waiters = wake_up_first(@)]
    /\ threads' = [threads EXCEPT ![th].pc = "idle"]
    /\ UNCHANGED <<cacheVars, clientVars, readerVars>>

ThreadsNext ==
    \E th \in ThreadIds :
        \/ OpCall(th)
        \/ AcquireTest(th)
        \/ AcquireAll(th)
        \/ AcquireDeque(th)
        \/ AcquireGetLoop(th)
        \/ AcquireAppend(th)
        \/ AcquireSet(th)
        \/ AcquireWake(th)
        \/ CriticalSection(th)
        \/ Release(th)
        \/ ReleaseWake(th)

SpecThreads == CacheInit /\ [][ThreadsNext]_vars


(***************************************************************************)
(* The client driven by main()                                             *)
(*                                                                         *)
(* Every action is one run of a coroutine from the await it was suspended  *)
(* in to the next await that suspends it: the asyncio event loop runs one  *)
(* task at a time.                                                         *)
(***************************************************************************)
\* An entry of _handle_reconnect that does not count the attempt.
reconnect_entry_uncounted(w) ==
    [w EXCEPT !.is_reconnecting = TRUE]

\* An entry of _handle_reconnect that counts the attempt twice.
reconnect_entry_twice(w) ==
    [w EXCEPT !.is_reconnecting = TRUE, !.reconnect_count = @ + 2]

\* _handle_reconnect, its first two assignments (lines 222-223).
reconnect_entry(w) ==
    [w EXCEPT !.is_reconnecting = TRUE, !.reconnect_count = @ + 1]

\* _handle_reconnect from its call to its first await that suspends it
\* (lines 219-237): the client fields, the task, the transports, and the
\* connection states the assignments go through before the last one.  The
\* close() of its disconnect() returns at once on the connection whose recv
\* has raised, and the task is then suspended in the reconnect delay.
handle_reconnect_begin(w, task, tr) ==
    LET w1 == reconnect_entry(w)
    IN  IF w1.reconnect_count > w1.max_reconnect_attempts
        THEN [ws |-> [w1 EXCEPT !.is_connected = FALSE,
                                !.is_reconnecting = FALSE],
              task |-> [task EXCEPT !.pc = "done", !.hr = TRUE],
              transport |-> tr,
              trail |-> <<ConnState(w1, FALSE)>>]
        ELSE LET d == disconnect(w1, tr)
             IN  [ws |-> d.ws,
                  task |-> IF d.conn # 0
                           THEN [task EXCEPT !.pc = "hr_close", !.hr = TRUE,
                                             !.conn = d.conn]
                           ELSE [task EXCEPT !.pc = "hr_sleep", !.hr = TRUE],
                  transport |-> d.transport,
                  trail |-> <<ConnState(w1, FALSE)>>]

\* The loops that are blocked in recv or suspended in a message handler.
ActiveLoops == {t \in 1..Len(loops) : loops[t].pc \in {"recv", "handling"}}

\* asyncio.run(main()) (line 82) creates the event loop and starts to run
\* main() in it; the signal handlers are installed by then (lines 78-79).
RunStarts ==
    /\ exit_code = -1 /\ runner.phase = "starting"
    /\ runner' = [runner EXCEPT !.phase = "main"]
    /\ trail' = <<>>
    /\ UNCHANGED <<cacheVars, ws, transport, loops, main_task, shutdown_task,
                   exit_code, losses, failed_reconnects, attempts, reconnected,
                   disc_hit, sent, delivered, connect_ret, late, threadVars,
                   readerVars>>

\* main(): initialize_historical_data for the next (symbol, timeframe) pair:
\* the REST answer arrives and its klines are added; after the last pair
\* ws_client.connect() is called.
MainBootstrap ==
    /\ Running /\ main_task.pc = "bootstrap"
    /\ UNCHANGED <<late, runner>>
    /\ \E data \in BootAnswersFor(main_task.i) :
          LET ks == api_get_klines(Pairs[main_task.i][1], Pairs[main_task.i][2], data)
              log == LogAll(calls, calls_full, ks)
          IN  /\ cache' = AddAll(cache, ks)
              /\ calls' = log[1]
              /\ calls_full' = log[2]
              /\ last_call' = [op |-> "initialize_historical_data",
                               kline |-> IF ks = <<>> THEN NoKline ELSE ks[Len(ks)]]
    /\ main_task' = IF BootstrapOver(main_task.i + 1)
                    THEN [main_task EXCEPT !.pc = "connect", !.i = @ + 1]
                    ELSE [main_task EXCEPT !.i = @ + 1]
    /\ trail' = <<>>
    /\ UNCHANGED <<ws, transport, loops, shutdown_task, exit_code, losses,
                   failed_reconnects, attempts, reconnected, disc_hit, sent, delivered,
                   connect_ret, threadVars, readerVars>>

\* main(): the first connect() succeeds; subscribe_all starts and suspends
\* in its first send.
MainConnectOk ==
    /\ Running /\ main_task.pc = "connect"
    /\ UNCHANGED <<late, runner>>
    /\ transport' = Append(transport, "open")
    /\ ws' = connect_ok(ws, Len(transport) + 1)
    /\ connect_ret' = "True"
    /\ sent' = <<>>
    /\ main_task' = SubscribeNext(main_task, ws', 1, "subscribe", "await_loop")
    /\ attempts' = 0
    /\ trail' = <<>>
    /\ UNCHANGED <<cacheVars, loops, shutdown_task, exit_code, losses,
                   failed_reconnects, reconnected, disc_hit, delivered,
                   threadVars, readerVars>>

\* main(): the first connect() fails; sys.exit(1) (line 47) raises
\* SystemExit, which runs the finally block: its disconnect(), and, when
\* that has returned, the await of api_client.close().
MainConnectFail ==
    /\ Running /\ main_task.pc = "connect"
    /\ UNCHANGED <<late, runner>>
    /\ connect_ret' = "False"
    /\ LET d == disconnect(connect_failed(ws), transport)
       IN  /\ ws' = d.ws
           /\ transport' = d.transport
           /\ main_task' = [main_task EXCEPT
                              !.pc = IF d.conn # 0 THEN "fin_close_err"
                                     ELSE "fin_api_close_err",
                              !.conn = d.conn]
    /\ trail' = <<>>
    /\ UNCHANGED <<cacheVars, loops, shutdown_task, exit_code, losses,
                   failed_reconnects, attempts, reconnected, disc_hit, sent,
                   delivered, threadVars, readerVars>>

\* main(): what follows the subscription of a symbol: the send of the next
\* symbol, or, after the last one, the creation of the message loop task,
\* which main then awaits.
MainAfterSymbol(i) ==
    /\ main_task' = SubscribeNext(main_task, ws, i, "subscribe", "await_loop")
    /\ loops' = IF main_task'.pc = "await_loop" THEN Append(loops, NewLoop) ELSE loops

\* main(): the send of subscribe_klines returns or raises.
MainSendDone ==
    /\ Running /\ main_task.pc = "subscribe"
    /\ UNCHANGED <<late, runner>>
    /\ LET ok == transport[main_task.conn] = "open"
       IN  /\ sent' = Append(sent, Request(symbols[main_task.i], ok))
           /\ IF ok
              THEN /\ main_task' = [main_task EXCEPT !.pc = "sub_sleep"]
                   /\ UNCHANGED loops
              ELSE MainAfterSymbol(after_send(main_task.i, ok))
    /\ trail' = <<>>
    /\ UNCHANGED <<cacheVars, ws, transport, shutdown_task, exit_code, losses,
                   failed_reconnects, attempts, reconnected, disc_hit, delivered,
                   connect_ret, threadVars, readerVars>>

\* main(): the delay after a successful subscription is over.
MainSleepOver ==
    /\ Running /\ main_task.pc = "sub_sleep"
    /\ UNCHANGED <<late, runner>>
    /\ MainAfterSymbol(after_send(main_task.i, TRUE))
    /\ trail' = <<>>
    /\ UNCHANGED <<cacheVars, ws, transport, shutdown_task, exit_code, losses,
                   failed_reconnects, attempts, reconnected, disc_hit, sent, delivered,
                   connect_ret, threadVars, readerVars>>

\* The loops that are in the delay or the connect() of a reconnection.
AttemptLoops ==
    {t \in 1..Len(loops) : loops[t].pc \in {"hr_sleep", "hr_connect"}}

\* disc_hit once the disconnect() of a caller has returned.
disconnect_returned(hit) == [hit EXCEPT !.pending = @ \cup AttemptLoops]

\* main(): the awaited task (the first loop) has returned, or main() is
\* resumed with the CancelledError of asyncio.run's cancellation; the
\* finally block calls disconnect() (line 57) and, when that has returned,
\* awaits api_client.close().
MainLoopReturned ==
    /\ Running
    /\ UNCHANGED <<late, runner>>
    /\ \/ main_task.pc = "await_loop" /\ loops[1].pc = "done"
       \/ main_task.pc = "cancelled"
    /\ LET d == disconnect(ws, transport)
           hit == [disc_hit EXCEPT !.main = ActiveLoops]
       IN  /\ ws' = d.ws
           /\ transport' = d.transport
           /\ main_task' = [main_task EXCEPT
                              !.pc = IF d.conn # 0 THEN "fin_close"
                                     ELSE "fin_api_close",
                              !.conn = d.conn]
           /\ disc_hit' = IF d.conn = 0 THEN disconnect_returned(hit) ELSE hit
    /\ trail' = <<>>
    /\ UNCHANGED <<cacheVars, loops, shutdown_task, exit_code, losses,
                   failed_reconnects, attempts, reconnected, sent, delivered,
                   connect_ret, threadVars, readerVars>>

\* main(): the connection its disconnect() closes is closed and close()
\* returns; disconnect() ends and api_client.close() is awaited (line 58).
MainFinished ==
    /\ Running /\ main_task.pc \in {"fin_close", "fin_close_err"}
    /\ Closed(transport, main_task.conn)
    /\ UNCHANGED <<late, runner>>
    /\ ws' = disconnect_end(ws, TRUE)
    /\ main_task' = [main_task EXCEPT !.pc = IF @ = "fin_close"
                                              THEN "fin_api_close"
                                              ELSE "fin_api_close_err",
                                      !.conn = 0]
    /\ disc_hit' = disconnect_returned(disc_hit)
    /\ trail' = <<>>
    /\ UNCHANGED <<cacheVars, transport, loops, shutdown_task, exit_code, losses,
                   failed_reconnects, attempts, reconnected, sent, delivered,
                   connect_ret, threadVars, readerVars>>

\* A task that asyncio.run cancels: CancelledError is raised at the await
\* the task is suspended in; no handler of start_message_loop, of
\* _handle_reconnect or of shutdown() catches it (they catch Exception), so
\* the task ends there.
cancelled(task) ==
    IF task.pc \in {"idle", "done"} THEN task ELSE [task EXCEPT !.pc = "cancelled"]

\* asyncio.run, once the run of main() is over: the cleanup cancels every
\* task that has not ended (asyncio.runners._cancel_all_tasks) and the
\* process is going to exit with the given status.
teardown(status) == [phase |-> "teardown", status |-> status]

\* main(): api_client.close() has returned and main() ends.  After the
\* sys.exit(1) of line 47 it ends with SystemExit, which stops the event
\* loop at once and leaves asyncio.run with status 1 through its cleanup.
\* Else main() returns (or, cancelled by the cleanup, ends), and the event
\* loop goes on until the callback that stops it runs.
MainExit ==
    /\ Running /\ main_task.pc \in {"fin_api_close", "fin_api_close_err"}
    /\ UNCHANGED <<late, exit_code>>
    /\ main_task' = [main_task EXCEPT !.pc = "done"]
    /\ IF main_task.pc = "fin_api_close_err"
       THEN /\ runner' = teardown(main_exit(FALSE))
            /\ loops' = [t \in 1..Len(loops) |-> cancelled(loops[t])]
            /\ shutdown_task' = cancelled(shutdown_task)
       ELSE UNCHANGED <<runner, loops, shutdown_task>>
    /\ trail' = <<>>
    /\ UNCHANGED <<cacheVars, ws, transport, losses,
                   failed_reconnects, attempts, reconnected, disc_hit, sent, delivered,
                   connect_ret, threadVars, readerVars>>

\* asyncio.run(main()) after main() has returned: the event loop stops and
\* the cleanup of asyncio.run starts, with status 0.
LoopStops ==
    /\ Running /\ runner.phase = "main" /\ main_task.pc = "done"
    /\ runner' = teardown(main_exit(TRUE))
    /\ late' = EmptyBag
    /\ loops' = [t \in 1..Len(loops) |-> cancelled(loops[t])]
    /\ shutdown_task' = cancelled(shutdown_task)
    /\ trail' = <<>>
    /\ UNCHANGED <<cacheVars, ws, transport, main_task, exit_code, losses,
                   failed_reconnects, attempts, reconnected, disc_hit, sent, delivered,
                   connect_ret, threadVars, readerVars>>

\* asyncio.run(main()) (line 82) returns or raises when its cleanup is over
\* (every cancelled task has ended), and the process exits; a shutdown()
\* task that is still pending ends with it.
RunReturns ==
    /\ Running /\ runner.phase = "teardown" /\ main_task.pc = "done"
    /\ exit_code' = runner.status
    /\ shutdown_task' = cancelled(shutdown_task)
    /\ trail' = <<>>
    /\ UNCHANGED <<cacheVars, ws, transport, loops, main_task, losses,
                   failed_reconnects, attempts, reconnected, disc_hit, sent, delivered,
                   connect_ret, late, runner, threadVars, readerVars>>

\* A stop signal while the event loop runs: signal_handler creates the
\* shutdown() task (line 65), which calls disconnect() and, when that has
\* returned, awaits api_client.close() (lines 71-72).
ShutdownStart ==
    /\ Running /\ shutdown_task.pc = "idle"
    /\ TaskStep(0)
    /\ LET d == disconnect(ws, transport)
           hit == [disc_hit EXCEPT !.shutdown = ActiveLoops]
       IN  /\ ws' = d.ws
           /\ transport' = d.transport
           /\ shutdown_task' = [pc |-> IF d.conn # 0 THEN "closing" ELSE "api_close",
                                conn |-> d.conn]
           /\ disc_hit' = IF d.conn = 0 THEN disconnect_returned(hit) ELSE hit
    /\ trail' = <<>>
    /\ UNCHANGED <<cacheVars, loops, main_task, exit_code, runner, losses,
                   failed_reconnects, attempts, reconnected, sent, delivered,
                   connect_ret, threadVars, readerVars>>

\* A stop signal while no event loop runs, before asyncio.run has started
\* its loop or between the runs of the loop in its cleanup: the
\* asyncio.create_task of signal_handler (line 65) raises RuntimeError, the
\* shutdown() coroutine never runs, and the exception ends the process with
\* status 1.
SignalNoLoop ==
    /\ exit_code = -1 /\ shutdown_task.pc = "idle"
    /\ \/ runner.phase = "starting"
       \/ runner.phase = "teardown" /\ main_task.pc = "done"
    /\ exit_code' = 1
    /\ shutdown_task' = [shutdown_task EXCEPT !.pc = "not_created"]
    /\ trail' = <<>>
    /\ UNCHANGED <<cacheVars, ws, transport, loops, main_task, losses,
                   failed_reconnects, attempts, reconnected, disc_hit, sent, delivered,
                   connect_ret, late, runner, threadVars, readerVars>>

\* shutdown(): the connection its disconnect() closes is closed and close()
\* returns; disconnect() ends and api_client.close() is awaited.
ShutdownFinished ==
    /\ Running /\ shutdown_task.pc = "closing"
    /\ Closed(transport, shutdown_task.conn)
    /\ TaskStep(0)
    /\ ws' = disconnect_end(ws, TRUE)
    /\ shutdown_task' = [pc |-> "api_close", conn |-> 0]
    /\ disc_hit' = disconnect_returned(disc_hit)
    /\ trail' = <<>>
    /\ UNCHANGED <<cacheVars, transport, loops, main_task, exit_code, runner, losses,
                   failed_reconnects, attempts, reconnected, sent, delivered,
                   connect_ret, threadVars, readerVars>>

\* The awaits of main() inside its try block (lines 28-43).
MainTryAwaits == {"bootstrap", "connect", "subscribe", "sub_sleep", "await_loop"}

\* shutdown(): api_client.close() has returned; sys.exit(0) (line 73)
\* raises SystemExit, which stops the event loop at once.  While main() is
\* run, asyncio.run goes to its cleanup with status 0: the message loop
\* tasks end where they are; main(), cancelled inside its try block, goes
\* to its finally block, and, cancelled inside its finally block, ends
\* there.  In the cleanup of asyncio.run the SystemExit ends the process
\* with status 0, whatever status the cleanup had.
ShutdownExit ==
    /\ Running /\ shutdown_task.pc = "api_close"
    /\ TaskStep(0)
    /\ shutdown_task' = [shutdown_task EXCEPT !.pc = "done"]
    /\ IF runner.phase = "main"
       THEN /\ runner' = teardown(0)
            /\ loops' = [t \in 1..Len(loops) |-> cancelled(loops[t])]
            /\ main_task' = IF main_task.pc \in MainTryAwaits
                            THEN [main_task EXCEPT !.pc = "cancelled"]
                            ELSE [main_task EXCEPT !.pc = "done"]
            /\ UNCHANGED exit_code
       ELSE /\ exit_code' = 0
            /\ UNCHANGED <<runner, loops, main_task>>
    /\ trail' = <<>>
    /\ UNCHANGED <<cacheVars, ws, transport, losses,
                   failed_reconnects, attempts, reconnected, disc_hit, sent, delivered,
                   connect_ret, threadVars, readerVars>>

\* start_message_loop: a created task starts, or wakes from sleep(1), and
\* goes to the top of its loop.
LoopContinue(t) ==
    /\ Running /\ loops[t].pc \in {"ready", "sleep"}
    /\ TaskStep(t) /\ UNCHANGED runner
    /\ loops' = [loops EXCEPT ![t] = EnterLoop(@, ws)]
    /\ trail' = <<>>
    /\ UNCHANGED <<cacheVars, ws, transport, main_task, shutdown_task,
                   exit_code, losses, failed_reconnects, attempts, reconnected, disc_hit,
                   sent, delivered, connect_ret, threadVars, readerVars>>

\* A loop that goes back to recv while the first handler is still running.
handlers_detached(task, w) == EnterLoop([task EXCEPT !.h = 1], w)

\* _handle_kline_data after add_kline (lines 203-207): the task awaits the
\* first message handler, or is back at the top of its loop when there is
\* none.
handlers_awaited(task, w) ==
    IF w.message_handlers > 0
    THEN [task EXCEPT !.pc = "handling", !.h = 1]
    ELSE EnterLoop(task, w)

\* start_message_loop: recv returns a kline frame, which it does until the
\* connection is closed; _handle_kline_data adds the kline to the cache and calls the first message handler, or goes back
\* to the top of the loop when there is none.
RecvKline(t, k) ==
    /\ Running /\ loops[t].pc = "recv"
    /\ TaskStep(t) /\ UNCHANGED runner
    /\ transport[loops[t].conn] \in {"open", "closing"}
    /\ cache' = add_kline(cache, k)
    /\ LogCall(k)
    /\ last_call' = [op |-> "add_kline", kline |-> k]
    /\ ws' = [ws EXCEPT !.last_message = TRUE]
    /\ loops' = [loops EXCEPT ![t] = handlers_awaited(@, ws)]
    /\ delivered' = IF ws.message_handlers > 0 THEN <<HandlerCall(1, k)>>
                    ELSE <<>>
    /\ trail' = <<>>
    /\ UNCHANGED <<transport, main_task, shutdown_task, exit_code, losses,
                   failed_reconnects, attempts, reconnected, disc_hit, sent, connect_ret,
                   threadVars, readerVars>>

\* start_message_loop: recv returns a frame that _handle_message or
\* _handle_kline_data drops; the loop goes back to its top.
RecvSkipped(t) ==
    /\ Running /\ loops[t].pc = "recv"
    /\ TaskStep(t) /\ UNCHANGED runner
    /\ transport[loops[t].conn] \in {"open", "closing"}
    /\ ws' = [ws EXCEPT !.last_message = TRUE]
    /\ loops' = [loops EXCEPT ![t] = EnterLoop(@, ws)]
    /\ trail' = <<>>
    /\ UNCHANGED <<cacheVars, transport, main_task, shutdown_task, exit_code,
                   losses, failed_reconnects, attempts, reconnected, disc_hit, sent,
                   delivered, connect_ret, threadVars, readerVars>>

\* start_message_loop: recv returns frame f.
RecvFrame(t, f) ==
    IF handle_message(f).upsert
    THEN RecvKline(t, handle_message(f).kline)
    ELSE RecvSkipped(t)

\* _handle_kline_data: the awaited message handler returns or raises; the
\* next handler is called, or the loop goes back to its top.
HandlerDone(t, raised) ==
    /\ Running /\ loops[t].pc = "handling"
    /\ TaskStep(t) /\ UNCHANGED runner
    /\ LET next == handler_next(loops[t].h, ws.message_handlers, raised)
           done == [delivered EXCEPT ![Len(delivered)].raised = raised]
       IN  IF next > 0
           THEN /\ loops' = [loops EXCEPT ![t].h = next]
                /\ delivered' = Append(done, HandlerCall(next, last_call.kline))
           ELSE /\ loops' = [loops EXCEPT ![t] = EnterLoop([@ EXCEPT !.h = 0], ws)]
                /\ delivered' = <<>>
    /\ trail' = <<>>
    /\ UNCHANGED <<cacheVars, ws, transport, main_task, shutdown_task,
                   exit_code, losses, failed_reconnects, attempts, reconnected, disc_hit,
                   sent, connect_ret, threadVars, readerVars>>

\* start_message_loop: the connection is closed and recv raises
\* ConnectionClosed; the loop breaks and line 150 decides whether to
\* reconnect.
RecvRaises(t) ==
    /\ Running /\ loops[t].pc = "recv"
    /\ TaskStep(t) /\ UNCHANGED runner
    /\ Closed(transport, loops[t].conn)
    /\ IF ws.is_connected /\ ~ws.is_reconnecting
       THEN LET r == handle_reconnect_begin(ws, loops[t], transport)
            IN  /\ ws' = r.ws
                /\ loops' = [loops EXCEPT ![t] = r.task]
                /\ transport' = r.transport
                /\ trail' = r.trail
                /\ attempts' = attempts + 1
       ELSE /\ loops' = [loops EXCEPT ![t].pc = "done"]
            /\ trail' = <<>>
            /\ UNCHANGED <<ws, transport, attempts>>
    /\ UNCHANGED <<cacheVars, main_task, shutdown_task, exit_code, losses,
                   failed_reconnects, reconnected, disc_hit, sent, delivered,
                   connect_ret, threadVars, readerVars>>

\* _handle_reconnect: the connection its disconnect() closes is closed and
\* close() returns; the reconnect delay starts.
ReconnectClosed(t) ==
    /\ Running /\ loops[t].pc = "hr_close"
    /\ Closed(transport, loops[t].conn)
    /\ TaskStep(t) /\ UNCHANGED runner
    /\ UNCHANGED transport
    /\ ws' = disconnect_end(ws, TRUE)
    /\ loops' = [loops EXCEPT ![t].pc = "hr_sleep"]
    /\ trail' = <<>>
    /\ UNCHANGED <<cacheVars, main_task, shutdown_task, exit_code, losses,
                   failed_reconnects, attempts, reconnected, disc_hit, sent, delivered,
                   connect_ret, threadVars, readerVars>>

\* _handle_reconnect: the delay is over; connect() is called.
ReconnectDelayOver(t) ==
    /\ Running /\ loops[t].pc = "hr_sleep"
    /\ TaskStep(t) /\ UNCHANGED runner
    /\ loops' = [loops EXCEPT ![t].pc = "hr_connect"]
    /\ trail' = <<>>
    /\ UNCHANGED <<cacheVars, ws, transport, main_task, shutdown_task,
                   exit_code, losses, failed_reconnects, attempts, reconnected, disc_hit,
                   sent, delivered, connect_ret, threadVars, readerVars>>

\* _handle_reconnect: connect() succeeds; subscribe_all starts and suspends
\* in its first send.
ReconnectOk(t) ==
    /\ Running /\ loops[t].pc = "hr_connect"
    /\ TaskStep(t) /\ UNCHANGED runner
    /\ transport' = Append(transport, "open")
    /\ ws' = connect_ok(ws, Len(transport) + 1)
    /\ connect_ret' = "True"
    /\ sent' = <<>>
    /\ loops' = [loops EXCEPT ![t] =
                    SubscribeNext(@, ws', 1, "hr_subscribe", "hr_subscribed")]
    /\ reconnected' = TRUE
    /\ failed_reconnects' = 0
    /\ attempts' = 0
    /\ trail' = <<>>
    /\ UNCHANGED <<cacheVars, main_task, shutdown_task, exit_code, losses,
                   disc_hit, delivered, threadVars, readerVars>>

\* _handle_reconnect: connect() fails; line 247 and the return.
ReconnectFailed(t) ==
    /\ Running /\ loops[t].pc = "hr_connect"
    /\ TaskStep(t) /\ UNCHANGED runner
    /\ ws' = [connect_failed(ws) EXCEPT !.is_reconnecting = FALSE]
    /\ connect_ret' = "False"
    /\ loops' = [loops EXCEPT ![t].pc = "done"]
    /\ failed_reconnects' = failed_reconnects + 1
    /\ trail' = <<>>
    /\ UNCHANGED <<cacheVars, transport, main_task, shutdown_task, exit_code,
                   losses, attempts, reconnected, disc_hit, sent, delivered,
                   threadVars, readerVars>>

\* _handle_reconnect: what follows the subscription of a symbol: the send of
\* the next symbol, or, after the last one, the creation of a new message
\* loop task, the reset of is_reconnecting and the end of the old task.
ReconnectAfterSymbol(t, i) ==
    LET task == SubscribeNext(loops[t], ws, i, "hr_subscribe", "hr_subscribed")
    IN  IF task.pc = "hr_subscribed"
        THEN /\ loops' = Append([loops EXCEPT ![t] = reconnect_end(task)], NewLoop)
             /\ ws' = [ws EXCEPT !.is_reconnecting = FALSE]
        ELSE /\ loops' = [loops EXCEPT ![t] = task]
             /\ UNCHANGED ws

\* _handle_reconnect: the send of subscribe_klines returns or raises.
ReconnectSendDone(t) ==
    /\ Running /\ loops[t].pc = "hr_subscribe"
    /\ TaskStep(t) /\ UNCHANGED runner
    /\ LET ok == transport[loops[t].conn] = "open"
       IN  /\ sent' = Append(sent, Request(symbols[loops[t].i], ok))
           /\ IF ok
              THEN /\ loops' = [loops EXCEPT ![t].pc = "hr_sub_sleep"]
                   /\ UNCHANGED ws
              ELSE ReconnectAfterSymbol(t, after_send(loops[t].i, ok))
    /\ trail' = <<>>
    /\ UNCHANGED <<cacheVars, transport, main_task, shutdown_task, exit_code,
                   losses, failed_reconnects, attempts, reconnected, disc_hit, delivered,
                   connect_ret, threadVars, readerVars>>

\* _handle_reconnect: the delay after a successful subscription is over.
ReconnectSleepOver(t) ==
    /\ Running /\ loops[t].pc = "hr_sub_sleep"
    /\ TaskStep(t) /\ UNCHANGED runner
    /\ ReconnectAfterSymbol(t, after_send(loops[t].i, TRUE))
    /\ trail' = <<>>
    /\ UNCHANGED <<cacheVars, transport, main_task, shutdown_task, exit_code,
                   losses, failed_reconnects, attempts, reconnected, disc_hit, sent,
                   delivered, connect_ret, threadVars, readerVars>>

\* add_message_handler (lines 254-256): the application registers one more
\* handler; the list _handle_kline_data iterates over is this list.
AddMessageHandler ==
    /\ Running /\ ws.message_handlers < MaxHandlers
    /\ UNCHANGED <<late, runner>>
    /\ ws' = add_message_handler(ws)
    /\ trail' = <<>>
    /\ UNCHANGED <<cacheVars, transport, loops, main_task, shutdown_task,
                   exit_code, losses, failed_reconnects, attempts, reconnected,
                   disc_hit, sent, delivered, connect_ret, threadVars, readerVars>>

\* The closing handshake of transport c is over (the peer has answered, or
\* close_timeout has passed, line 51): the connection is closed, and every
\* task that awaits its close() or its recv() is ready.
CloseEnded(c) ==
    /\ Running
    /\ transport[c] = "closing"
    /\ transport' = [transport EXCEPT ![c] = "closed"]
    /\ trail' = <<>>
    /\ UNCHANGED <<cacheVars, ws, loops, main_task, shutdown_task, exit_code,
                   losses, failed_reconnects, attempts, reconnected, disc_hit,
                   sent, delivered, connect_ret, late, runner, threadVars,
                   readerVars>>

\* The network (or the exchange) drops an open transport.
NetworkLoss(c) ==
    /\ Running /\ losses < MaxLosses
    /\ UNCHANGED <<late, runner>>
    /\ transport[c] = "open"
    /\ transport' = [transport EXCEPT ![c] = "lost"]
    /\ losses' = losses + 1
    /\ trail' = <<>>
    /\ UNCHANGED <<cacheVars, ws, loops, main_task, shutdown_task, exit_code,
                   failed_reconnects, attempts, reconnected, disc_hit, sent, delivered,
                   connect_ret, threadVars, readerVars>>

Init ==
    \E limit \in {0, MaxAttempts} : Constructed(limit, 0)

LoopStep ==
    \E t \in 1..Len(loops) :
        \/ LoopContinue(t)
        \/ \E raised \in BOOLEAN : HandlerDone(t, raised)
        \/ RecvRaises(t)
        \/ ReconnectClosed(t)
        \/ ReconnectDelayOver(t)
        \/ ReconnectOk(t)
        \/ ReconnectFailed(t)
        \/ ReconnectSendDone(t)
        \/ ReconnectSleepOver(t)

MainStep ==
    \/ RunStarts
    \/ MainBootstrap
    \/ MainConnectOk
    \/ MainConnectFail
    \/ MainSendDone
    \/ MainSleepOver
    \/ MainLoopReturned
    \/ MainFinished
    \/ MainExit
    \/ LoopStops
    \/ RunReturns

ShutdownStep ==
    ShutdownStart \/ SignalNoLoop \/ ShutdownFinished \/ ShutdownExit

Frame == \E t \in 1..Len(loops), f \in StreamFrames : RecvFrame(t, f)

Network == \E c \in 1..Len(transport) : NetworkLoss(c) \/ CloseEnded(c)

Next ==
    MainStep \/ LoopStep \/ ShutdownStep \/ Frame \/ Network \/ AddMessageHandler

Spec == Init /\ [][Next]_vars

\* The event loop runs every task that is ready, and every close, delay and
\* connect comes to an end; frames, losses and signals need not happen.
FairSpec ==
    /\ Spec
    /\ WF_vars(MainStep)
    /\ WF_vars(ShutdownFinished \/ ShutdownExit)
    /\ WF_vars(LoopStep)
    /\ WF_vars(\E c \in 1..Len(transport) : CloseEnded(c))

(***************************************************************************)
(* Properties of the cache                                                 *)
(***************************************************************************)
\* Every (symbol, timeframe) pair that has a series.
SeriesKeys == {<<s, tf>> \in (DOMAIN cache) \X Timeframes : tf \in DOMAIN cache[s]}

\* The indices of the entries of a series stored at an open_time.
EntriesAt(dq, t) == {i \in 1..Len(dq) : dq[i].open_time = t}

\* dq holds exactly the final klines with open_times a..b, in that order.
IsFinalRun(dq, a, b) ==
    /\ Len(dq) = b - a + 1
    /\ \A i \in 1..Len(dq) : dq[i].open_time = a + i - 1 /\ dq[i].is_final

\* C1: after any sequence of add_kline calls every (symbol, timeframe)
\* series holds at most max_klines entries.
C1_CapacityBounded ==
    \A key \in SeriesKeys : Len(cache[key[1]][key[2]]) <= max_klines

\* A series is full after more calls than the call log keeps.
C1_Witness ==
    \E key \in SeriesKeys :
        Len(cache[key[1]][key[2]]) = max_klines /\ calls_full

\* C2: after any sequence of upserts, out-of-order and duplicate ones
\* included, no series holds two entries with the same open_time.
C2_NoDuplicateOpenTime ==
    \A key \in SeriesKeys :
        LET dq == cache[key[1]][key[2]]
        IN  \A i, j \in 1..Len(dq) :
                dq[i].open_time = dq[j].open_time => i = j

\* C3: after any sequence of upserts the entries of every series are in
\* strictly ascending open_time order.
C3_StrictlyAscending ==
    \A key \in SeriesKeys :
        LET dq == cache[key[1]][key[2]]
        IN  \A i \in 1..(Len(dq) - 1) : dq[i].open_time < dq[i + 1].open_time

\* C4: once a series holds a final entry at open_time t, an upsert of a
\* non-final kline with open_time <= t leaves the cache unchanged.
C4_FinalNotReopened ==
    [][\A k \in Klines :
          (/\ AddKline(k)
           /\ ~k.is_final
           /\ \E i \in 1..Len(cache[k.symbol][k.interval]) :
                 /\ cache[k.symbol][k.interval][i].is_final
                 /\ k.open_time <= cache[k.symbol][k.interval][i].open_time)
          => cache' = cache]_vars

\* What one upsert of k does to its series: dq before, dq2 after.
UpsertRule(dq, dq2, k) ==
    IF Len(dq) > 0 /\ dq[Len(dq)].open_time = k.open_time
    THEN /\ Len(dq2) = Len(dq)
         /\ dq2[Len(dq2)] = k
         /\ \A i \in 1..(Len(dq) - 1) : dq2[i] = dq[i]
    ELSE IF Len(dq) = max_klines
    THEN /\ Len(dq2) = max_klines
         /\ dq2[Len(dq2)] = k
         /\ \A i \in 1..(max_klines - 1) : dq2[i] = dq[i + 1]
    ELSE /\ Len(dq2) = Len(dq) + 1
         /\ dq2[Len(dq2)] = k
         /\ \A i \in 1..Len(dq) : dq2[i] = dq[i]

\* The example of the rule: a series that holds the final klines 1..j
\* (j <= max_klines) and receives the final kline j+1 then holds 1..j+1,
\* or 2..j+1 when it was full, as get(limit=10) returns it.
UpsertExample(dq, got, k) ==
    \A j \in 0..max_klines :
        (IsFinalRun(dq, 1, j) /\ k.is_final /\ k.open_time = j + 1)
        => /\ IsFinalRun(got, IF j = max_klines THEN 2 ELSE 1, j + 1)
           /\ got[Len(got)] = k
           /\ \A i \in 1..(Len(got) - 1) : got[i] = dq[Len(dq) - Len(got) + 1 + i]

\* C5: an upsert whose open_time is that of the last entry replaces that
\* entry and nothing else; any other upsert appends the kline and, on a
\* full series, removes exactly the oldest entry.  With capacity 3 the
\* final klines 1,2,3,4 leave get(limit=10) = 2,3,4.
C5_UpsertCorrect ==
    [][(last_call'.op = "add_kline" /\ cacheVars' # cacheVars)
       => LET k == last_call'.kline
          IN  /\ UpsertRule(cache[k.symbol][k.interval],
                            cache'[k.symbol][k.interval], k)
              /\ UpsertExample(cache[k.symbol][k.interval],
                               get_klines(cache', k.symbol, k.interval, 10), k)]_vars

\* The series of the example after its last upsert: full, holding the
\* final klines 2..max_klines+1.
C5_Witness ==
    \E key \in SeriesKeys :
        /\ IsFinalRun(cache[key[1]][key[2]], 2, max_klines + 1)
        /\ calls_full

\* C6: a non-final kline and then a final kline with the same open_time,
\* upserted into a new cache, leave exactly one entry at that open_time:
\* the final kline.
C6_ProvisionalThenFinal ==
    (/\ ~calls_full
     /\ Len(calls) = 2
     /\ calls[1].symbol = calls[2].symbol
     /\ calls[1].interval = calls[2].interval
     /\ calls[1].open_time = calls[2].open_time
     /\ ~calls[1].is_final
     /\ calls[2].is_final)
    => LET dq == cache[calls[2].symbol][calls[2].interval]
       IN  /\ Cardinality(EntriesAt(dq, calls[2].open_time)) = 1
           /\ \A i \in EntriesAt(dq, calls[2].open_time) : dq[i] = calls[2]

\* The two calls of the example at one open_time, with different prices.
C6_Witness ==
    /\ ~calls_full
    /\ Len(calls) = 2
    /\ calls[1].open_time = max_klines + 1 /\ ~calls[1].is_final /\ calls[1].close_price = 1
    /\ calls[2].open_time = max_klines + 1 /\ calls[2].is_final /\ calls[2].close_price = 2
    /\ cache[calls[2].symbol][calls[2].interval] = <<calls[2]>>


\* The program counters of a thread that is inside the "async with" body.
InCriticalSection == {"cs", "release"}

\* C11: no two cache operations are inside their critical section at the
\* same time, also when one of them is a get_klines of the analysis tool
\* running in its own thread and event loop while the ingestion upserts.
C11_MutuallyExclusive ==
    \A a, b \in ThreadIds :
        (/\ threads[a].pc \in InCriticalSection
         /\ threads[b].pc \in InCriticalSection) => a = b

(***************************************************************************)
(* Properties of the client                                                *)
(***************************************************************************)
\* The connection state of the client.
State == ConnState(ws, Connecting)

\* The start_message_loop tasks a run can create: the first one and one
\* for every reconnection, which takes a lost transport.
LoopIds == 1..(MaxLosses + 1)

\* Some task is inside _handle_reconnect.
Reconnecting ==
    \E t \in 1..Len(loops) :
        loops[t].pc \in {"hr_close", "hr_sleep", "hr_connect", "hr_subscribe",
                         "hr_sub_sleep"}

\* The client has stopped trying: a reconnection's connect() failed, every
\* message loop task has returned, and no stop was requested.
GaveUp ==
    /\ failed_reconnects > 0
    /\ \A t \in 1..Len(loops) : loops[t].pc = "done"
    /\ shutdown_task.pc = "idle"

\* C7: with max_reconnect_attempts = 3 the client stops reconnecting only
\* after 3 consecutive failed reconnection attempts, and is then
\* terminally_failed (reconnect_count above the maximum).
C7_ReconnectionBound ==
    (ws.max_reconnect_attempts = 3 /\ GaveUp)
    => (failed_reconnects = 3 /\ State = "terminally_failed")

\* C8: once a reconnection has succeeded and resubscribed, and as long as
\* no stop is requested and the new connection is not lost, the client is
\* connected and a message loop runs on it, also under main().
C8_StaysConnected ==
    (/\ reconnected
     /\ shutdown_task.pc = "idle"
     /\ ~Reconnecting
     /\ transport[Len(transport)] # "lost")
    => /\ Running
       /\ ws.is_connected
       /\ \E t \in 1..Len(loops) :
             /\ loops[t].pc \in {"ready", "recv", "handling"}
             /\ loops[t].pc = "recv" => loops[t].conn = Len(transport)

\* Loop t has returned, or asyncio.run has cancelled it or the process has
\* exited.
LoopEnded(t) ==
    exit_code # -1 \/ (t <= Len(loops) /\ loops[t].pc \in {"done", "cancelled"})

\* What holds once a disconnect() that found the loops of hit active has
\* returned: the client is disconnected and holds no connection object, and
\* the connection of every such loop is closed, so that its recv raises.
Disconnected(hit) ==
    hit # {} =>
    /\ ~ws.is_connected /\ ~ws.is_reconnecting /\ ws.connection = 0
    /\ ~ws.status_connected
    /\ \A t \in hit : Closed(transport, loops[t].conn)

\* The disconnect() of main's finally block has returned.
MainDisconnectReturned ==
    \/ main_task.pc \in {"fin_api_close", "fin_api_close_err"}
    \/ main_task.pc = "done" /\ main_task.conn = 0

\* The disconnect() of shutdown() has returned.
ShutdownDisconnectReturned == shutdown_task.pc \in {"api_close", "done"}

\* The safety part of C9.
C9_Safe ==
    /\ \A t \in disc_hit.main \cup disc_hit.shutdown : ~loops[t].hr
    /\ MainDisconnectReturned => Disconnected(disc_hit.main)
    /\ ShutdownDisconnectReturned => Disconnected(disc_hit.shutdown)

\* C9: a disconnect() invoked while a message loop is blocked in recv or
\* handling a frame closes the connection, which unblocks the recv; from
\* its return on the client is disconnected with no connection object;
\* the loop ends, and it never calls _handle_reconnect.
C9_DisconnectStopsLoop ==
    /\ []C9_Safe
    /\ (disc_hit.main \cup disc_hit.shutdown # {})
          ~> (\A t \in disc_hit.main \cup disc_hit.shutdown : LoopEnded(t))

\* The disconnect() of shutdown() was invoked while a loop was blocked in
\* recv; it has closed the connection and has returned, and the loop has
\* returned without a reconnection.
C9_Witness ==
    /\ ShutdownDisconnectReturned
    /\ ~ws.is_connected /\ ws.connection = 0
    /\ \E t \in disc_hit.shutdown :
          /\ loops[t].pc = "done" /\ ~loops[t].hr
          /\ transport[loops[t].conn] = "closed"

\* The arrows of the state diagram.
DiagramEdges ==
    {<<"disconnected", "connecting">>, <<"connecting", "connected">>,
     <<"connected", "reconnecting">>, <<"reconnecting", "connected">>,
     <<"reconnecting", "terminally_failed">>}

\* A step in which a caller's disconnect() runs, or the first connect fails.
CallerDisconnects ==
    \/ MainLoopReturned \/ MainFinished \/ MainConnectFail
    \/ ShutdownStart \/ ShutdownFinished

\* C10: every change of the connection state follows an arrow of the
\* diagram; the only other changes are to disconnected, by a caller's
\* disconnect() or by a connect() that fails.
C10_FollowsDiagram ==
    [][LET path == <<State>> \o trail' \o <<State'>>
       IN  \A i \in 1..(Len(path) - 1) :
              \/ path[i] = path[i + 1]
              \/ <<path[i], path[i + 1]>> \in DiagramEdges
              \/ /\ path[i + 1] = "disconnected"
                 /\ path[i] = "connecting" \/ CallerDisconnects]_vars

\* The loop tasks that are receiving: created, sleeping, blocked in recv or
\* handling a frame.
ReceiveLoops ==
    {t \in 1..Len(loops) : loops[t].pc \in {"ready", "sleep", "recv", "handling"}}

\* The loop tasks that are inside _handle_reconnect.
ReconnectingLoops ==
    {t \in 1..Len(loops) :
        loops[t].pc \in {"hr_close", "hr_sleep", "hr_connect", "hr_subscribe",
                         "hr_sub_sleep"}}

\* No caller has invoked disconnect(): main is not in its finally block and
\* no stop signal has come.
NoDisconnectRequested ==
    /\ main_task.pc \notin {"fin_close", "fin_close_err", "fin_api_close",
                             "fin_api_close_err", "done"}
    /\ shutdown_task.pc = "idle"

\* C12: a frame that is no JSON, JSON of no known shape, or a kline event
\* with a missing or unparsable field is skipped: the cache and the handler
\* calls are unchanged, the loop goes back to recv, no reconnection starts.
C12_BadFrameSkipped ==
    [][\A t \in 1..Len(loops), f \in BadFrames :
          RecvFrame(t, f)
          => /\ cache' = cache
             /\ delivered' = delivered
             /\ loops'[t].pc = "recv"
             /\ ~ws'.is_reconnecting
             /\ ws'.reconnect_count = ws.reconnect_count]_vars

\* The handler calls 1..m for kline k, in registration order.
HandlerCalls(k, m) == [i \in 1..m |-> [handler |-> i, kline |-> k]]

\* The handlers and klines of the calls made so far.
Delivered == [i \in 1..Len(delivered) |->
                [handler |-> delivered[i].handler, kline |-> delivered[i].kline]]

\* C13: a well-formed kline frame makes one upsert of its kline, then one
\* call of every registered handler with that kline, in registration order
\* (a handler registered while the calls are made is called last); a
\* handler that raises stops neither the later handlers nor the loop, which
\* goes back to recv unless a disconnect() was requested (it then ends
\* or polls for a connection).
C13_UpsertThenListeners ==
    [][/\ \A t \in 1..Len(loops), k \in StreamKlines :
             RecvFrame(t, WellFormed(k))
             => /\ cache' = add_kline(cache, k)
                /\ last_call' = [op |-> "add_kline", kline |-> k]
                /\ IF ws.message_handlers = 0
                   THEN /\ delivered' = <<>>
                        /\ loops'[t].pc \in {"recv", "sleep", "done"}
                        /\ loops'[t].pc # "recv" => ~NoDisconnectRequested
                   ELSE Delivered' = HandlerCalls(k, 1) /\ loops'[t].pc = "handling"
       /\ \A t \in 1..Len(loops), raised \in BOOLEAN :
             HandlerDone(t, raised)
             => /\ cacheVars' = cacheVars
                /\ Delivered = HandlerCalls(last_call.kline, loops[t].h)
                /\ IF loops[t].h < ws.message_handlers
                   THEN /\ loops'[t].pc = "handling"
                        /\ Delivered' = HandlerCalls(last_call.kline, loops[t].h + 1)
                   ELSE /\ loops'[t].pc \in {"recv", "sleep", "done"}
                        /\ loops'[t].pc # "recv" => ~NoDisconnectRequested]_vars

\* The second handler is being called after the first one raised.
C13_Witness ==
    /\ Len(delivered) = 2
    /\ delivered[1].raised
    /\ delivered[2].handler = 2 /\ delivered[2].kline = last_call.kline
    /\ \E t \in 1..Len(loops) : loops[t].pc = "handling" /\ loops[t].h = 2

\* C14: when recv raises and no disconnect() was requested, a reconnection
\* attempt starts: the task enters _handle_reconnect, the state goes through
\* reconnecting, and reconnect_count grows by exactly one.
C14_LossStartsReconnect ==
    [][\A t \in 1..Len(loops) :
          (RecvRaises(t) /\ NoDisconnectRequested)
          => /\ loops'[t].hr
             /\ trail' # <<>> /\ trail'[1] = "reconnecting"
             /\ ws'.reconnect_count = ws.reconnect_count + 1]_vars

\* A first reconnection attempt has begun: its delay is pending.
C14_Witness ==
    /\ NoDisconnectRequested
    /\ \E t \in 1..Len(loops) : loops[t].pc = "hr_sleep" /\ loops[t].hr
    /\ ws.reconnect_count = 1
    /\ trail = <<"reconnecting">>

\* C15: a connect() that succeeds leaves is_connected and status.connected
\* true, reconnect_count 0 and last_message set, and returns True, whatever
\* reconnect_count was before.
C15_ConnectSucceeds ==
    /\ [](\A n \in 0..(MaxAttempts + 1) :
            LET w == connect_ok([ws EXCEPT !.reconnect_count = n], 1)
            IN  /\ w.is_connected /\ w.status_connected /\ w.last_message
                /\ w.reconnect_count = 0)
    /\ [][(MainConnectOk \/ \E t \in 1..Len(loops) : ReconnectOk(t))
          => /\ ws'.is_connected /\ ws'.status_connected /\ ws'.last_message
             /\ ws'.reconnect_count = 0
             /\ ws'.connection = Len(transport')
             /\ connect_ret' = "True"]_vars

\* The connect() of a reconnection has succeeded (reconnect_count was 1).
C15_Witness ==
    /\ reconnected
    /\ connect_ret = "True"
    /\ ws.is_connected /\ ws.reconnect_count = 0
    /\ \E t \in 1..Len(loops) : loops[t].pc = "hr_subscribe"

\* C16: a connect() that fails returns False and leaves the client
\* disconnected: is_connected and status.connected are false and the
\* failure is recorded as the last error.
C16_ConnectFails ==
    [][(MainConnectFail \/ \E t \in 1..Len(loops) : ReconnectFailed(t))
       => /\ ~ws'.is_connected
          /\ ~ws'.status_connected
          /\ ws'.error_message
          /\ connect_ret' = "False"
          /\ ConnState(ws', FALSE) = "disconnected"]_vars

\* The connect() of a reconnection has failed.
C16_Witness ==
    /\ connect_ret = "False"
    /\ failed_reconnects = 1
    /\ ws.error_message /\ ~ws.is_connected

\* C17: never two reconnection attempts at a time, never two receive loops
\* at a time.
C17_Sequential ==
    /\ Cardinality(ReconnectingLoops) <= 1
    /\ Cardinality(ReceiveLoops) <= 1

\* After a first reconnection, whose task has ended, the connection was
\* lost again and the new loop is in the connect() of a second attempt.
C17_Witness ==
    /\ Len(loops) = 2 /\ losses = 2
    /\ loops[1].pc = "done" /\ loops[1].hr
    /\ loops[2].pc = "hr_connect" /\ loops[2].hr
    /\ ws.reconnect_count = 1

\* The params of the request of every configured symbol.
ExpectedParams ==
    <<<<"btcusdt@kline_1h", "btcusdt@kline_4h">>,
      <<"ethusdt@kline_1h", "ethusdt@kline_4h">>>>

\* The step in which subscribe_all returns.
SubscribeAllReturns ==
    \/ /\ main_task.pc \in {"subscribe", "sub_sleep"}
       /\ main_task'.pc = "await_loop"
    \/ \E t \in 1..Len(loops) :
          /\ loops[t].pc \in {"hr_subscribe", "hr_sub_sleep"}
          /\ loops'[t].pc = "done"

\* subscribe_all has sent exactly one SUBSCRIBE request per configured
\* symbol, in order, with the streams of all timeframes, whether the sends
\* failed or not.
SentForEverySymbol(reqs) ==
    /\ Len(reqs) = Len(symbols)
    /\ \A i \in 1..Len(symbols) :
          /\ reqs[i].symbol = symbols[i]
          /\ reqs[i].method = "SUBSCRIBE"
          /\ reqs[i].params = ExpectedParams[i]

\* C18, for a client that stays connected: a subscribe_all that returns
\* while the client is marked connected (no disconnect() was invoked while
\* it ran) has issued the request of every configured symbol, whether the
\* sends failed or not.
C18_SubscribeAll ==
    [][(SubscribeAllReturns /\ ws.is_connected) => SentForEverySymbol(sent')]_vars

\* C18 as stated: every subscribe_all that returns has issued the request
\* of every configured symbol.
C18_AsStated ==
    [][SubscribeAllReturns => SentForEverySymbol(sent')]_vars

\* subscribe_all has returned after the send of the first symbol failed and
\* that of the second was still made.
C18_Witness ==
    /\ main_task.pc = "await_loop"
    /\ Len(sent) = 2
    /\ ~sent[1].ok
    /\ sent[2].symbol = "ETHUSDT"

\* C19: when the first connect() fails, no subscription is sent, no message
\* loop task is created, no reconnection is attempted, main is in the
\* cleanup of its finally block or has ended, and the process exits with
\* status 1.
C19_StartupFailure ==
    (connect_ret = "False" /\ transport = <<>>)
    => /\ sent = <<>>
       /\ loops = <<>>
       /\ ws.reconnect_count = 0 /\ failed_reconnects = 0 /\ ~reconnected
       /\ ~ws.is_connected /\ ~ws.status_connected /\ ws.connection = 0
       /\ main_task.pc \in {"fin_api_close_err", "done"}
       /\ exit_code \in {-1, 1}

\* C20: every bootstrap upsert is made before the connection is opened:
\* no transport exists while main is in the bootstrap, connect() is called
\* when every (symbol, timeframe) pair has been loaded, and a bootstrap step
\* never comes after a stream upsert nor while a message loop exists.
C20_BootstrapFirst ==
    /\ [](transport # <<>> => main_task.pc # "bootstrap")
    /\ [](main_task.pc = "connect" => main_task.i > Len(Pairs))
    /\ [](main_task.pc = "bootstrap" => last_call.op # "add_kline")
    /\ [][MainBootstrap => (transport = <<>> /\ loops = <<>>)]_vars

\* The stream has upserted into a series the bootstrap had filled.
C20_Witness ==
    /\ last_call.op = "add_kline"
    /\ \E key \in SeriesKeys :
          LET dq == cache[key[1]][key[2]]
          IN  Len(dq) >= 2 /\ dq[1].open_time = 1 /\ dq[Len(dq)] = last_call.kline

(***************************************************************************)
(* Properties of the reads                                                 *)
(***************************************************************************)
\* The series a read of (s, tf) looks at; none when the cache has no such
\* symbol or timeframe.
SeriesExists(s, tf) == s \in DOMAIN cache /\ tf \in DOMAIN cache[s]

Min(a, b) == IF a <= b THEN a ELSE b

\* C21: get_klines on an existing series returns its last min(limit, len)
\* entries in stored order when limit is positive, and the whole series when
\* limit is None or 0.
C21_GetLastEntries ==
    [][\A key \in ReadKeys, limit \in Limits :
          (ReadGetKlines(key[1], key[2], limit) /\ SeriesExists(key[1], key[2]))
          => LET s == cache[key[1]][key[2]]
                 r == returned'.items
             IN  IF limit # NoLimit /\ limit > 0
                 THEN /\ Len(r) = Min(limit, Len(s))
                      /\ \A i \in 1..Len(r) : r[i] = s[Len(s) - Len(r) + i]
                 ELSE r = s]_vars

\* A read with limit 2 has returned the two newest of three entries.
C21_Witness ==
    /\ returned.op = "get_klines" /\ returned.limit = 2 /\ ~returned.modified
    /\ returned.symbol = symbols[1] /\ returned.timeframe = timeframes[1]
    /\ Len(cache[symbols[1]][timeframes[1]]) = 3
    /\ returned.items = SubSeq(cache[symbols[1]][timeframes[1]], 2, 3)

\* C22: get_klines for a symbol or timeframe the cache does not have returns
\* an empty list and leaves the cache as it is, without a new series.
C22_MissingSeriesEmpty ==
    [][\A key \in ReadKeys, limit \in Limits :
          (ReadGetKlines(key[1], key[2], limit) /\ ~SeriesExists(key[1], key[2]))
          => /\ returned'.items = <<>>
             /\ cache' = cache
             /\ ~(key[1] \in DOMAIN cache' /\ key[2] \in DOMAIN cache'[key[1]])]_vars

\* A read of an unknown symbol has returned while the cache holds klines.
C22_Witness ==
    /\ returned.op = "get_klines" /\ returned.symbol = "UNKNOWN"
    /\ returned.items = <<>>
    /\ "UNKNOWN" \notin DOMAIN cache
    /\ cache[symbols[1]][timeframes[1]] # <<>>

\* C23: the list get_klines returned is a point-in-time copy: an add_kline
\* made later leaves its length, order and entries as they were, and a
\* modification the caller makes to it (removing an entry, assigning to a
\* field of an entry) leaves the cache as it was.
C23_PointInTimeCopy ==
    /\ [][ReadsAdd => returned'.items = returned.items]_vars
    /\ [][CallerModifies => cache' = cache]_vars

\* C24: get_latest_kline returns the last element of what get_klines
\* returns, which is the kline of the latest add_kline to the series, and
\* None when the series is empty or missing.
C24_GetLatest ==
    [][\A key \in ReadKeys :
          ReadGetLatest(key[1], key[2])
          => LET all == get_klines(cache, key[1], key[2], NoLimit)
             IN  /\ returned'.latest =
                       IF all = <<>> THEN NoKline ELSE all[Len(all)]
                 /\ (/\ last_call.op = "add_kline"
                      /\ last_call.kline.symbol = key[1]
                      /\ last_call.kline.interval = key[2])
                     => returned'.latest = last_call.kline]_vars

\* get_latest_kline has returned the newest of several entries.
C24_Witness ==
    /\ returned.op = "get_latest_kline"
    /\ returned.symbol = symbols[1] /\ returned.timeframe = timeframes[1]
    /\ Len(cache[symbols[1]][timeframes[1]]) >= 2
    /\ returned.latest = last_call.kline
    /\ returned.latest # cache[symbols[1]][timeframes[1]][1]

(***************************************************************************)
(* Properties of the analysis tool                                         *)
(***************************************************************************)
\* The timeframes of the analysis where ema20 and ema50 both have a value,
\* and those of them where ema20 is above ema50.
BothPresent == {i \in 1..Len(analysis) : {"ema20", "ema50"} \subseteq analysis[i].fields}

EmaAbove == {i \in BothPresent : analysis[i].ema_up}

\* C25: with three timeframes that all have an ema20 and an ema50, one of
\* them with ema20 above ema50 gives trend_consistency 1/3 (one timeframe
\* of the three that are counted), and all three give trend_consistency 1
\* and trend_direction "up".  The label of the example for 1/3 is left out
\* of the formula: below 0.4 the rule of C26 gives "down", not "choppy".
C25_ConsensusExample ==
    [][(SignalsGenerate /\ Len(analysis) = 3 /\ Cardinality(BothPresent) = 3)
       => /\ Cardinality(EmaAbove) = 1
             => overall'.trend_count = 1 /\ overall'.trend_total = 3
          /\ Cardinality(EmaAbove) = 3
             => /\ overall'.trend_count = 3 /\ overall'.trend_total = 3
                /\ overall'.trend_direction = "up"]_vars

\* C26: with k of the n > 0 timeframes that have both averages having ema20
\* above ema50, trend_direction is "up" iff k/n > 0.6, "down" iff k/n < 0.4
\* and "choppy" otherwise; 3 of 5 and 2 of 5 are "choppy".
C26_TrendDirection ==
    [][(SignalsGenerate /\ BothPresent # {})
       => LET k == Cardinality(EmaAbove)
              n == Cardinality(BothPresent)
              d == overall'.trend_direction
          IN  /\ overall'.trend_count = k /\ overall'.trend_total = n
              /\ d \in {"up", "down", "choppy"}
              /\ d = "up" <=> 10 * k > 6 * n
              /\ d = "down" <=> 10 * k < 4 * n
              /\ (n = 5 /\ k \in {2, 3}) => d = "choppy"]_vars

\* The number of timeframes whose obv_trend is the given label.
ObvCount(label) ==
    Cardinality({i \in 1..Len(analysis) : analysis[i].obv_trend = label})

\* The label that more timeframes have than any other label, "neutral" when
\* no label has more than every other.
MajorityLabel ==
    IF \E l \in {"bullish", "bearish", "neutral"} :
          \A m \in {"bullish", "bearish", "neutral"} \ {l} : ObvCount(l) > ObvCount(m)
    THEN CHOOSE l \in {"bullish", "bearish", "neutral"} :
          \A m \in {"bullish", "bearish", "neutral"} \ {l} : ObvCount(l) > ObvCount(m)
    ELSE "neutral"

\* C27: obv_consensus is the majority label of the timeframes' obv_trend
\* values, "neutral" on a tie.
C27_ObvMajority ==
    [][(SignalsGenerate /\ \E i \in 1..Len(analysis) : analysis[i].obv_trend # "")
       => overall'.obv_consensus = MajorityLabel]_vars

\* C28: every consensus metric is in overall_signals exactly when some
\* timeframe has a value for what it reads, and overall_signals is empty
\* when every timeframe is without data.
C28_AbsentWithoutValues ==
    [][SignalsGenerate
       => LET Has(f) == \E i \in 1..Len(analysis) : f \in analysis[i].fields
              In(ks) == ks \subseteq overall'.keys
              Out(ks) == ks \cap overall'.keys = {}
              Exactly(c, ks) == IF c THEN In(ks) ELSE Out(ks)
          IN  /\ Exactly(BothPresent # {}, {"trend_direction", "trend_consistency"})
              /\ (BothPresent # {}) <=> (overall'.trend_direction # "")
              /\ Exactly(Has("rsi7"), {"avg_rsi7", "rsi7_signal"})
              /\ Exactly(Has("rsi14"), {"avg_rsi14", "rsi14_signal"})
              /\ Exactly(Has("macd_histogram"), {"macd_consensus"})
              /\ Exactly(Has("adx"), {"avg_adx", "market_regime"})
              /\ Exactly(Has("bb_position"), {"avg_bb_position", "bb_signal"})
              /\ Exactly(Has("obv_trend"), {"obv_consensus"})
              /\ Has("obv_trend") <=> (overall'.obv_consensus # "")
              /\ (\A i \in 1..Len(analysis) : analysis[i].error)
                 => overall' = no_signals]_vars

\* C29: in the result of a timeframe with n candles, ema20, the Bollinger
\* bands and the support and resistance levels have a value iff n >= 20,
\* ema50 iff n >= 50, obv iff n >= 1, obv_trend iff n >= 5, and a timeframe
\* with candles is not reported as an error.
C29_LookbackThresholds ==
    \A i \in 1..Len(analysis) :
        LET n == analysis[i].data_points
            Has(f) == f \in analysis[i].fields
        IN  /\ Has("ema20") <=> n >= 20
            /\ \A f \in {"bb_upper", "bb_middle", "bb_lower"} : Has(f) <=> n >= 20
            /\ \A f \in {"resistance_level", "support_level"} : Has(f) <=> n >= 20
            /\ Has("ema50") <=> n >= 50
            /\ Has("obv") <=> n >= 1
            /\ Has("obv_trend") <=> n >= 5
            /\ analysis[i].error <=> n = 0

\* The tool has analysed a snapshot of 19 candles and one of 20.
C29_Witness ==
    /\ Len(analysis) = 2
    /\ analysis[1].data_points = 19 /\ "ema20" \notin analysis[1].fields
    /\ analysis[2].data_points = 20 /\ "ema20" \in analysis[2].fields
    /\ "bb_upper" \in analysis[2].fields

\* C30: in the result of a timeframe with n candles, the macd fields have a
\* value iff n >= 26, rsi7 iff n >= 7, rsi14 iff n >= 14, natr iff n >= 14
\* and adx iff n >= 14.
C30_LibraryThresholds ==
    \A i \in 1..Len(analysis) :
        LET n == analysis[i].data_points
            Has(f) == f \in analysis[i].fields
        IN  /\ \A f \in {"macd_line", "signal_line", "macd_histogram"} :
                  Has(f) <=> n >= 26
            /\ Has("rsi7") <=> n >= 7
            /\ Has("rsi14") <=> n >= 14
            /\ Has("natr") <=> n >= 14
            /\ Has("adx") <=> n >= 14

\* The OBV values of the snapshot the tool analysed, and the two the slope
\* is taken between.
ObvLast == OBV(tool_klines)[Len(tool_klines)]
ObvEarlier == OBV(tool_klines)[Len(tool_klines) - 4]

\* C31: for a snapshot of at least 5 candles, obv_trend is "bullish" iff the
\* last OBV value is greater than the one 4 positions earlier, "bearish" iff
\* it is smaller and "neutral" iff they are equal, whatever the earlier
\* value is.
C31_ObvSlopeSign ==
    (analysis # <<>> /\ Len(tool_klines) >= 5) =>
        /\ analysis[1].obv_trend = "bullish" <=> ObvLast > ObvEarlier
        /\ analysis[1].obv_trend = "bearish" <=> ObvLast < ObvEarlier
        /\ analysis[1].obv_trend = "neutral" <=> ObvLast = ObvEarlier

\* The entries of an analysis that are not marked as errors.
WithData(a) == LET HasData(d) == ~d.error IN SelectSeq(a, HasData)

\* C32: a timeframe without candles is reported as no-data with data_points
\* 0, a timeframe with candles is analysed whatever the
\* timeframes before it were, the tool returns once every timeframe has its
\* entry, and its consensus is the consensus of the timeframes with data.
C32_NoDataRecovered ==
    /\ [](\A i \in 1..Len(analysis) :
              analysis[i].data_points = 0 <=> analysis[i].error)
    /\ [][Len(analysis') = Len(analysis) + 1 =>
              LET d == analysis'[Len(analysis')]
              IN  /\ SubSeq(analysis', 1, Len(analysis)) = analysis
                  /\ d.data_points > 0 =>
                        ~d.error /\ "current_price" \in d.fields]_vars
    /\ [](Len(analysis) = Len(timeframes) => ENABLED ToolReturns)
    /\ [][ToolReturns =>
              overall' = _generate_overall_signals(WithData(analysis))]_vars

\* The tool has returned the analysis of a first timeframe without candles
\* and a second one of 50 candles with ema20 above ema50: the trend is that
\* of the second alone.
C32_Witness ==
    /\ Len(analysis) = 2
    /\ analysis[1].error /\ analysis[1].data_points = 0
    /\ ~analysis[2].error /\ analysis[2].data_points = 50
    /\ overall.trend_total = 1 /\ overall.trend_direction = "up"

\* C33: once a caller's disconnect() has returned during the delay or the
\* pending connect() of a reconnection attempt, no connection is opened, no
\* subscription request is sent, no message loop task is created, and the
\* client stays disconnected.
C33_DisconnectFinal ==
    /\ [][disc_hit.pending # {} =>
              /\ Len(transport') = Len(transport)
              /\ Len(sent') <= Len(sent)
              /\ Len(loops') = Len(loops)]_vars
    /\ [](disc_hit.pending # {} =>
              ~ws.is_connected /\ ~ws.is_reconnecting /\ ws.connection = 0)

\* C34: after the connect() of a reconnection has failed with
\* reconnect_count not above max_reconnect_attempts, another attempt
\* follows unless a caller invokes disconnect(); the client is never found
\* with every message loop ended, no attempt in progress and no
\* disconnect() requested while reconnect_count is not above the maximum.
C34_RetriesAfterFailure ==
    /\ [](GaveUp /\ NoDisconnectRequested =>
              ws.reconnect_count > ws.max_reconnect_attempts)
    /\ (failed_reconnects > 0
          /\ ws.reconnect_count <= ws.max_reconnect_attempts)
          ~> (Reconnecting \/ ~NoDisconnectRequested)

\* C35: while a task is inside a reconnection attempt (closing the old
\* connection, in the delay, or in connect()) and no caller has invoked
\* disconnect(), is_reconnecting is true and the state is reconnecting.
C35_ReconnectingThroughout ==
    (NoDisconnectRequested /\ \E t \in 1..Len(loops) :
        loops[t].pc \in {"hr_close", "hr_sleep", "hr_connect"})
    => (ws.is_reconnecting /\ State = "reconnecting")

\* C36: in every series every entry before the last one has is_final true,
\* after any sequence of add_kline calls.
C36_OnlyLastLive ==
    \A key \in SeriesKeys :
        LET dq == cache[key[1]][key[2]]
        IN  \A i \in 1..(Len(dq) - 1) : dq[i].is_final

\* C37: add_kline(k) leaves every series other than (k.symbol, k.interval)
\* as it was, removes none, and creates only the series of k and, for a
\* symbol that had none, the empty series of that symbol.
C37_OtherSeriesUnchanged ==
    [][last_call'.op = "add_kline" /\ cacheVars' # cacheVars =>
          LET k == last_call'.kline
              Target(sym, tf) == sym = k.symbol /\ tf = k.interval
          IN  /\ \A sym \in DOMAIN cache :
                    /\ sym \in DOMAIN cache'
                    /\ \A tf \in DOMAIN cache[sym] :
                          /\ tf \in DOMAIN cache'[sym]
                          /\ ~Target(sym, tf) =>
                                cache'[sym][tf] = cache[sym][tf]
              /\ \A sym \in DOMAIN cache' :
                    \A tf \in DOMAIN cache'[sym] :
                        IF sym \notin DOMAIN cache
                        THEN /\ sym = k.symbol
                             /\ ~Target(sym, tf) => cache'[sym][tf] = <<>>
                        ELSE tf \notin DOMAIN cache[sym] => Target(sym, tf)]_vars

\* A kline of a symbol that is not configured has been added after a kline
\* of the first series: the series of the new symbol exist, the other ones
\* empty, and the first series still holds its kline.
C37_Witness ==
    /\ Len(calls) = 2
    /\ calls[1].symbol = symbols[1] /\ calls[1].interval = timeframes[1]
    /\ calls[2].symbol = "SOLUSDT" /\ calls[2].interval = timeframes[1]
    /\ cache[symbols[1]][timeframes[1]] = <<calls[1]>>
    /\ cache["SOLUSDT"][timeframes[1]] = <<calls[2]>>
    /\ cache["SOLUSDT"][timeframes[2]] = <<>>

\* C38: while a loop waits for a frame on its open connection, no handler
\* call of an earlier frame is pending; while the handlers of a kline are
\* called, that kline has been added, is the latest entry of its series, and
\* is the kline every handler is called with; and the add_kline of a frame is
\* made in the step that receives it, so that the calls are logged in the
\* order of the frames.
C38_InArrivalOrder ==
    /\ [](\A t \in 1..Len(loops) :
              /\ (Running /\ loops[t].pc = "recv"
                      /\ transport[loops[t].conn] = "open") =>
                     /\ delivered = <<>>
                     /\ \A u \in 1..Len(loops) : loops[u].pc # "handling"
              /\ loops[t].pc = "handling" =>
                     LET k == last_call.kline
                     IN  /\ last_call.op = "add_kline"
                         /\ get_latest_kline(cache, k.symbol, k.interval) = k
                         /\ Len(delivered) = loops[t].h
                         /\ \A i \in 1..Len(delivered) : delivered[i].kline = k)
    /\ [][\A t \in 1..Len(loops) :
              loops[t].pc = "recv" =>
                  \A k \in StreamKlines :
                      RecvFrame(t, WellFormed(k)) =>
                          IF calls_full' THEN calls' = <<>>
                          ELSE calls' = Append(calls, k)]_vars
\* The second handler is called with the kline of a second frame, which is
\* the latest entry of its series, after a first frame was handled.
C38_Witness ==
    /\ \E t \in 1..Len(loops) : loops[t].pc = "handling" /\ loops[t].h = 2
    /\ Len(delivered) = 2
    /\ Len(calls) >= 2
    /\ calls[Len(calls)] = delivered[2].kline
    /\ calls[Len(calls) - 1] # delivered[2].kline

\* C39: reconnect_count is never negative nor above
\* max_reconnect_attempts + 1, and it is the number of calls of
\* _handle_reconnect made since the last connect() that succeeded.
C39_CountBounded ==
    /\ 0 <= ws.reconnect_count
    /\ ws.reconnect_count <= ws.max_reconnect_attempts + 1
    /\ ws.reconnect_count = attempts

\* The first attempt with max_reconnect_attempts = 0 has been refused: the
\* count is one above the maximum.
C39_Witness ==
    /\ ws.max_reconnect_attempts = 0
    /\ ws.reconnect_count = 1 /\ attempts = 1
    /\ \E t \in 1..Len(loops) : loops[t].hr /\ loops[t].pc = "done"

\* The transports that are open or being closed.
LiveTransports ==
    {c \in 1..Len(transport) : transport[c] \in {"open", "closing"}}

\* A caller's disconnect() has returned.
DisconnectReturned ==
    \/ main_task.pc \in {"fin_api_close", "fin_api_close_err", "done"}
    \/ shutdown_task.pc \in {"api_close", "done"}

\* The client has stopped: a caller's disconnect() has returned, or a
\* reconnection was refused or has failed and every message loop has ended.
Stopped ==
    \/ DisconnectReturned
    \/ /\ \A t \in 1..Len(loops) : loops[t].pc = "done"
       /\ \/ failed_reconnects > 0
          \/ ws.reconnect_count > ws.max_reconnect_attempts

\* C40: at most one transport is open or being closed at any time, a
\* connect() opens one only when no other is, and once the client has stopped
\* no transport is open and get_status().connected is false.
C40_SingleConnection ==
    /\ [](Cardinality(LiveTransports) <= 1)
    /\ [][Len(transport') > Len(transport) => LiveTransports = {}]_vars
    /\ [](Stopped => LiveTransports = {} /\ ~ws.status_connected)

====
